---- MODULE Spec2Model ----
(***************************************************************************)
(* Spreadsheet ingestion of PCAgent: the batch standardizer                *)
(* (experiment.py, RelationalDataStandardizationSystem) and the            *)
(* interactive processor (data_processor.py, DataProcessor).               *)
(*                                                                         *)
(* Text is a sequence of one-character strings, so that substring search,  *)
(* upper-casing, stripping and number parsing are computed, not assumed.   *)
(* A cell is a record [t, n, d, s]: t is "null" (NaN/None), "int" (n),     *)
(* "float" (the ratio n/d in lowest terms) or "str" (text s).              *)
(*                                                                         *)
(* database.py (DatabaseManager) is not part of the sources; the store is  *)
(* modelled from the schema the specification gives for it.                *)
(***************************************************************************)
EXTENDS Integers, Sequences, FiniteSets, TLC

VARIABLES
    mode,          \* entry point: "batch" or "interactive"
    pc,            \* position of the running handler
    df,            \* the worksheet being handled: [columns, rows]
    sheet_type,    \* result of the sheet classifier
    extractor,     \* the row extractor the dispatcher invoked for df
    probe,         \* arguments of a field-extractor call: [row, column_name, default_index]
    result,        \* what the field extractors gave for probe
    customers_df,  \* batch tables of process_all_files
    sales_df,
    sale_items_df,
    distributors_df,
    products_df,
    product_name_to_id,  \* batch: product name -> product id
    sheets_read,   \* batch: worksheets read so far
    rows_read,     \* batch: rows read so far
    db,            \* the persisted store of the interactive processor
    now,           \* the clock datetime.now() reads, in seconds
    excel_file,    \* interactive: the worksheets of the file being ingested
    dp_product_mapping,  \* DataProcessor.product_mapping: upper-cased name -> id
    run,           \* interactive: calls of process_excel_file so far
    sheet_no,      \* interactive: worksheets of this call opened so far
    row_no,        \* interactive: rows of df handled so far
    processed_sheets,  \* process_excel_file: sheets that reported processed rows
    processed_rows,    \* process_*_sheet: rows counted as processed
    returned,      \* what the last call of process_excel_file returned
    entry_db,      \* the store as it was when the call began
    store_failed,  \* a store call of this call of process_excel_file failed
    store_up,      \* the store of the interactive processor answers
    output_db,     \* the database file process_all_files writes
    calls          \* concurrent _get_or_create_customer calls, by invocation

classVars == <<df, sheet_type, extractor>>
probeVars == <<probe, result>>
batchVars == <<customers_df, sales_df, sale_items_df, distributors_df, products_df,
               product_name_to_id, sheets_read, rows_read>>
storeVars == <<db, now>>
fileVars == <<excel_file, dp_product_mapping, run, sheet_no, row_no>>
callVars == <<processed_sheets, processed_rows, returned, entry_db, store_failed>>
envVars == <<store_up, output_db>>
vars == <<mode, pc, classVars, probeVars, batchVars, storeVars, fileVars, callVars, envVars,
          calls>>

(***************************** text ****************************************)

LowerChars == <<"a", "b", "c", "d", "e", "f", "g", "h", "i", "j", "k", "l", "m", "n", "o", "p", "q", "r", "s", "t", "u", "v", "w", "x", "y", "z">>
UpperChars == <<"A", "B", "C", "D", "E", "F", "G", "H", "I", "J", "K", "L", "M", "N", "O", "P", "Q", "R", "S", "T", "U", "V", "W", "X", "Y", "Z">>
DigitChars == <<"0", "1", "2", "3", "4", "5", "6", "7", "8", "9">>

UpperChar(c) ==
    IF \E i \in 1..26 : LowerChars[i] = c
    THEN UpperChars[CHOOSE i \in 1..26 : LowerChars[i] = c]
    ELSE c

\* str.upper()
Upper(s) == [i \in 1..Len(s) |-> UpperChar(s[i])]

\* k in s (Python substring test)
IsSubstr(k, s) ==
    \E i \in 0..(Len(s) - Len(k)) : \A j \in 1..Len(k) : s[i + j] = k[j]

RECURSIVE LStrip(_)
LStrip(s) == IF s # <<>> /\ Head(s) = " " THEN LStrip(Tail(s)) ELSE s

RECURSIVE RStrip(_)
RStrip(s) ==
    IF s # <<>> /\ s[Len(s)] = " " THEN RStrip(SubSeq(s, 1, Len(s) - 1)) ELSE s

\* str.strip()
Strip(s) == RStrip(LStrip(s))

IsDigitChar(c) == \E i \in 1..10 : DigitChars[i] = c

\* str.isdigit()
IsDigit(s) == s # <<>> /\ \A i \in 1..Len(s) : IsDigitChar(s[i])

RECURSIVE Digits(_)
Digits(k) ==
    IF k < 10 THEN <<DigitChars[k + 1]>>
    ELSE Digits(k \div 10) \o <<DigitChars[(k % 10) + 1]>>

\* ' '.join(labels)
RECURSIVE JoinSp(_)
JoinSp(ss) ==
    IF ss = <<>> THEN <<>>
    ELSE IF Len(ss) = 1 THEN ss[1]
    ELSE ss[1] \o <<" ">> \o JoinSp(Tail(ss))

RECURSIVE SortedIdx(_)
SortedIdx(K) ==
    IF K = {} THEN <<>>
    ELSE LET m == CHOOSE x \in K : \A y \in K : x <= y
         IN  <<m>> \o SortedIdx(K \ {m})

(***************************** cells ***************************************)

Null == [t |-> "null", n |-> 0, d |-> 1, s |-> <<>>]
IntCell(k) == [t |-> "int", n |-> k, d |-> 1, s |-> <<>>]
FloatCell(k) == [t |-> "float", n |-> k, d |-> 1, s |-> <<>>]
StrCell(x) == [t |-> "str", n |-> 0, d |-> 1, s |-> x]

\* pd.isna / pd.notna on a scalar cell
isna(c) == c.t = "null"
notna(c) == ~isna(c)

\* str(cell); a float is printed with its first fraction digit
Str(c) ==
    CASE c.t = "str" -> c.s
      [] c.t = "int" -> Digits(c.n)
      [] c.t = "float" -> Digits(c.n \div c.d) \o <<".">> \o Digits(((c.n % c.d) * 10) \div c.d)
      [] OTHER -> <<"n", "a", "n">>

(***************************** sheet classifiers ***************************)

\* DataFrame.empty: an axis of length 0
df_empty(d) == Len(d.columns) = 0 \/ Len(d.rows) = 0

sales_keywords ==
    {<<"I", "N", "V">>, <<"D", "I", "S", "P", "A", "T", "C", "H">>, <<"Q", "T", "N">>, <<"R", "A", "T", "E">>, <<"A", "M", "T">>, <<"F", "I", "N", "A", "L", " ", "A", "M", "T">>, <<"P", "A", "Y", "M", "E", "N", "T">>,
     <<"G", "-", "P", "A", "Y">>, <<"C", "A", "S", "H">>, <<"C", "H", "Q">>}
customer_keywords ==
    {<<"N", "A", "M", "E">>, <<"M", "O", "B", "I", "L", "E">>, <<"V", "I", "L", "L", "A", "G", "E">>, <<"T", "A", "L", "U", "K", "A">>, <<"D", "I", "S", "T", "R", "I", "C", "T">>, <<"M", "E", "M", "B", "E", "R">>, <<"C", "O", "D", "E">>}
distributor_keywords ==
    {<<"M", "A", "N", "T", "R", "I">>, <<"S", "A", "B", "H", "A", "S", "A", "D">>, <<"C", "O", "N", "T", "A", "C", "T">>, <<"G", "R", "O", "U", "P">>, <<"T", "O", "T", "A", "L">>, <<"L", "T", "R">>, <<"V", "I", "L", "L", "A", "G", "E">>,
     <<"T", "A", "L", "U", "K", "A">>}

identify_sheet_type_NoUpper(d) ==
    LET columns_str == JoinSp(d.columns)
        hit(kws) == \E k \in kws : IsSubstr(k, columns_str)
    IN  IF df_empty(d) THEN "empty"
        ELSE IF hit(sales_keywords) THEN "sales"
        ELSE IF hit(customer_keywords) THEN "customers"
        ELSE IF hit(distributor_keywords) THEN "distributors"
        ELSE "unknown"

identify_sheet_type_CustomersFirst(d) ==
    LET columns_str == JoinSp([i \in 1..Len(d.columns) |-> Upper(d.columns[i])])
        hit(kws) == \E k \in kws : IsSubstr(k, columns_str)
    IN  IF df_empty(d) THEN "empty"
        ELSE IF hit(customer_keywords) THEN "customers"
        ELSE IF hit(sales_keywords) THEN "sales"
        ELSE IF hit(distributor_keywords) THEN "distributors"
        ELSE "unknown"

identify_sheet_type(d) ==
    LET columns_str == JoinSp([i \in 1..Len(d.columns) |-> Upper(d.columns[i])])
        hit(kws) == \E k \in kws : IsSubstr(k, columns_str)
    IN  IF df_empty(d) THEN "empty"
        ELSE IF hit(sales_keywords) THEN "sales"
        ELSE IF hit(customer_keywords) THEN "customers"
        ELSE IF hit(distributor_keywords) THEN "distributors"
        ELSE "unknown"

\* df.dropna(how='all').dropna(axis=1, how='all'), labels stripped and upper-cased
_clean_dataframe(d) ==
    LET keptRows == SelectSeq(d.rows, LAMBDA r : \E j \in 1..Len(r) : notna(r[j]))
        keptCols == SortedIdx({j \in 1..Len(d.columns) :
                                 \E i \in 1..Len(keptRows) : notna(keptRows[i][j])})
    IN  [columns |-> [k \in 1..Len(keptCols) |-> Upper(Strip(d.columns[keptCols[k]]))],
         rows |-> [i \in 1..Len(keptRows) |->
                     [k \in 1..Len(keptCols) |-> keptRows[i][keptCols[k]]]]]

existing_columns(d, required_columns) ==
    {j \in 1..Len(d.columns) : \E req \in required_columns : IsSubstr(req, d.columns[j])}

sales_required == {<<"I", "N", "V", "O", "I", "C", "E">>, <<"C", "U", "S", "T", "O", "M", "E", "R">>, <<"P", "R", "O", "D", "U", "C", "T">>, <<"Q", "U", "A", "N", "T", "I", "T", "Y">>, <<"A", "M", "O", "U", "N", "T">>}
customer_required == {<<"C", "U", "S", "T", "O", "M", "E", "R">>, <<"N", "A", "M", "E">>, <<"M", "O", "B", "I", "L", "E">>, <<"V", "I", "L", "L", "A", "G", "E">>}
distributor_required == {<<"D", "I", "S", "T", "R", "I", "B", "U", "T", "O", "R">>, <<"M", "A", "N", "T", "R", "I">>, <<"S", "A", "B", "H", "A", "S", "A", "D">>}

SalesMinColumns == 3
CustomerMinColumns == 2
DistributorMinColumns == 2

_is_sales_sheet(d) ==
    Cardinality(existing_columns(d, sales_required)) >= SalesMinColumns
_is_customer_sheet(d) ==
    Cardinality(existing_columns(d, customer_required)) >= CustomerMinColumns
_is_distributor_sheet(d) ==
    Cardinality(existing_columns(d, distributor_required)) >= DistributorMinColumns

\* the if / elif chain of process_excel_file over the cleaned sheet
file_sheet_type(d) ==
    IF _is_sales_sheet(d) THEN "sales"
    ELSE IF _is_customer_sheet(d) THEN "customers"
    ELSE IF _is_distributor_sheet(d) THEN "distributors"
    ELSE "unknown"

\* the dispatch of process_all_files on the classifier's answer
batch_extractor(t) ==
    CASE t = "sales" -> "process_sales_data"
      [] t = "customers" -> "process_customer_data"
      [] t = "distributors" -> "process_distributor_data"
      [] OTHER -> "none"

\* the dispatch of process_excel_file
file_extractor(t) ==
    CASE t = "sales" -> "process_sales_sheet"
      [] t = "customers" -> "process_customer_sheet"
      [] t = "distributors" -> "process_distributor_sheet"
      [] OTHER -> "none"

(***************************** field extractor *****************************)

\* what a call did: returned a value, or let an exception escape
Returned(v) == [raised |-> "none", value |-> v]
Raised(e) == [raised |-> e, value |-> <<>>]

RECURSIVE DigitsValue(_)
DigitsValue(ds) ==
    IF ds = <<>> THEN 0
    ELSE 10 * DigitsValue(SubSeq(ds, 1, Len(ds) - 1))
         + ((CHOOSE i \in 1..10 : DigitChars[i] = ds[Len(ds)]) - 1)

RECURSIVE DropTrailingZeros(_)
DropTrailingZeros(ds) ==
    IF ds # <<>> /\ ds[Len(ds)] = "0" THEN DropTrailingZeros(SubSeq(ds, 1, Len(ds) - 1))
    ELSE ds

\* a float: k is "fin" (sign neg, integer part ip, fraction digits fr), "inf" or
\* "nan"; k = "ValueError" stands for float() refusing the text
Fin(neg, ip, fr) ==
    [k |-> "fin", neg |-> neg /\ (ip # 0 \/ fr # <<>>), ip |-> ip, fr |-> fr]
NonFin(k, neg) == [k |-> k, neg |-> neg, ip |-> 0, fr |-> <<>>]
FloatZero == Fin(FALSE, 0, <<>>)

\* float(text) for text made of blanks, a sign, digits, one point, inf, infinity, nan
PyFloatOfText(text) ==
    LET t == Strip(text)
        neg == t # <<>> /\ t[1] = "-"
        body == IF t # <<>> /\ t[1] \in {"-", "+"} THEN Tail(t) ELSE t
        up == Upper(body)
        dots == {i \in 1..Len(body) : body[i] = "."}
        d == IF dots = {} THEN Len(body) + 1 ELSE CHOOSE i \in dots : TRUE
        ipart == SubSeq(body, 1, d - 1)
        fpart == SubSeq(body, d + 1, Len(body))
    IN  IF up \in {<<"I", "N", "F">>, <<"I", "N", "F", "I", "N", "I", "T", "Y">>} THEN NonFin("inf", neg)
        ELSE IF up = <<"N", "A", "N">> THEN NonFin("nan", neg)
        ELSE IF Cardinality(dots) > 1 \/ ipart \o fpart = <<>>
                \/ \E i \in 1..Len(ipart \o fpart) : ~IsDigitChar((ipart \o fpart)[i])
        THEN NonFin("ValueError", FALSE)
        ELSE Fin(neg, DigitsValue(ipart), DropTrailingZeros(fpart))

\* float(cell) for a non-null cell (numeric cells here are whole-valued)
PyFloat(c) ==
    CASE c.t = "str" -> PyFloatOfText(c.s)
      [] OTHER -> Fin(FALSE, c.n \div c.d, <<>>)

\* a row of df.iterrows(): the labels (row.index) and the cells
Row(labels, cells) == [index |-> labels, cells |-> cells]

_safe_get(row, column_name, default_index) ==
    IF \E j \in 1..Len(row.index) : row.index[j] = column_name
    THEN LET value == row.cells[CHOOSE j \in 1..Len(row.index) : row.index[j] = column_name]
         IN  IF isna(value) THEN Returned(<<>>) ELSE Returned(Strip(Str(value)))
    ELSE IF Len(row.cells) > default_index
    THEN IF isna(row.cells[default_index + 1]) THEN Returned(<<>>)
         ELSE Returned(Strip(Str(row.cells[default_index + 1])))
    ELSE Returned(<<>>)

\* int(float(str_value)): ValueError and TypeError are caught, OverflowError is not
_safe_get_int(row, column_name, default_index) ==
    LET str_value == _safe_get(row, column_name, default_index).value
        f == PyFloatOfText(str_value)
    IN  IF str_value # <<>> /\ Strip(str_value) # <<>>
        THEN CASE f.k = "ValueError" -> Returned(0)
               [] f.k = "nan" -> Returned(0)
               [] f.k = "inf" -> Raised("OverflowError")
               [] OTHER -> Returned(IF f.neg THEN 0 - f.ip ELSE f.ip)
        ELSE Returned(0)

_safe_float(value) ==
    IF isna(value) THEN Returned(FloatZero)
    ELSE IF PyFloat(value).k = "ValueError" THEN Returned(FloatZero)
    ELSE Returned(PyFloat(value))

(***************************** frames **************************************)

\* a DataFrame: its column names and its rows, each a record over the columns
Frame(cols, rows) == [columns |-> cols, rows |-> rows]

Extend(r, cols) == [c \in cols |-> IF c \in DOMAIN r THEN r[c] ELSE Null]

\* pd.DataFrame(list of dicts)
FrameOf(dicts) ==
    LET cols == UNION {DOMAIN dicts[i] : i \in 1..Len(dicts)}
    IN  Frame(cols, [i \in 1..Len(dicts) |-> Extend(dicts[i], cols)])

frame_empty(f) == f.columns = {} \/ f.rows = <<>>

\* pd.concat([a, b], ignore_index=True): the union of the columns, NaN where absent
concat(a, b) ==
    LET cols == a.columns \cup b.columns
    IN  Frame(cols, [i \in 1..(Len(a.rows) + Len(b.rows)) |->
                       IF i <= Len(a.rows) THEN Extend(a.rows[i], cols)
                       ELSE Extend(b.rows[i - Len(a.rows)], cols)])

standard_columns ==
    [customers |-> {"customer_id", "customer_code", "name", "mobile", "village", "taluka",
                    "district", "source_file", "source_sheet"},
     \* the date, amount and payment columns of a sale are copied from the row and
     \* read by nothing; they are left out
     products |-> {"product_id", "product_name", "packing_type", "capacity_ltr", "category",
                   "standard_rate"},
     sales |-> {"sale_id", "invoice_no", "customer_id", "source_file", "source_sheet"},
     sale_items |-> {"item_id", "sale_id", "product_id", "quantity", "rate", "amount",
                     "source_file", "source_sheet"},
     distributors |-> {"distributor_id", "name", "village", "taluka", "district",
                       "mantri_name", "mantri_mobile", "sabhasad_count", "contact_in_group",
                       "total_liters", "source_file", "source_sheet"}]

(***************************** numbers *************************************)

IsNum(c) == c.t \in {"int", "float"}

\* bool(value)
Truthy(c) ==
    CASE c.t = "null" -> FALSE
      [] c.t = "str" -> c.s # <<>>
      [] OTHER -> c.n # 0

RECURSIVE GCD(_, _)
GCD(a, b) == IF b = 0 THEN a ELSE GCD(b, a % b)

Ratio(n, d) == [t |-> "float", n |-> n \div GCD(n, d), d |-> d \div GCD(n, d), s |-> <<>>]

\* a / b on positive numbers
TrueDiv(a, b) == Ratio(a.n * b.d, a.d * b.n)

RECURSIVE Repeat(_, _)
Repeat(x, k) == IF k <= 0 THEN <<>> ELSE x \o Repeat(x, k - 1)

\* a * b raises TypeError unless both are numbers or one is text and the other an int
TimesRaises(a, b) ==
    ~(\/ IsNum(a) /\ IsNum(b)
      \/ a.t = "str" /\ b.t = "int"
      \/ a.t = "int" /\ b.t = "str")

\* a * b: a product of numbers, or text repeated
Times(a, b) ==
    IF a.t = "int" /\ b.t = "int" THEN IntCell(a.n * b.n)
    ELSE IF a.t = "str" THEN StrCell(Repeat(a.s, b.n))
    ELSE IF b.t = "str" THEN StrCell(Repeat(b.s, a.n))
    ELSE Ratio(a.n * b.n, a.d * b.d)

\* dictionary key: 1 and 1.0 are the same key
Key(c) == IF IsNum(c) THEN [c EXCEPT !.t = "num"] ELSE c

SetMin(K) == CHOOSE x \in K : \A y \in K : x <= y
SetMax(K) == CHOOSE x \in K : \A y \in K : x >= y

(***************************** product catalog *****************************)

product_mapping ==
    << [name |-> <<"1", " ", "L", "T", "R", " ", "P", "L", "A", "S", "T", "I", "C", " ", "J", "A", "R">>, rate |-> 95],
       [name |-> <<"2", " ", "L", "T", "R", " ", "P", "L", "A", "S", "T", "I", "C", " ", "J", "A", "R">>, rate |-> 185],
       [name |-> <<"5", " ", "L", "T", "R", " ", "P", "L", "A", "S", "T", "I", "C", " ", "J", "A", "R">>, rate |-> 460],
       [name |-> <<"5", " ", "L", "T", "R", " ", "S", "T", "E", "E", "L", " ", "B", "A", "R", "N", "I">>, rate |-> 680],
       [name |-> <<"1", "0", " ", "L", "T", "R", " ", "S", "T", "E", "E", "L", " ", "B", "A", "R", "N", "I">>, rate |-> 1300],
       [name |-> <<"2", "0", " ", "L", "T", "R", " ", "S", "T", "E", "E", "L", " ", "B", "A", "R", "N", "I">>, rate |-> 2950],
       [name |-> <<"2", "0", " ", "L", "T", "R", " ", "P", "L", "A", "S", "T", "I", "C", " ", "C", "A", "N">>, rate |-> 2400],
       [name |-> <<"1", " ", "L", "T", "R", " ", "P", "E", "T", " ", "B", "O", "T", "T", "L", "E">>, rate |-> 85] >>

\* f"PROD_{i}"
ProdId(i) == StrCell(<<"P", "R", "O", "D", "_">> \o Digits(i))

\* the first catalog entry whose name occurs in the packing text, or none (0)
get_product_info(packing_text) ==
    LET hits == {i \in 1..Len(product_mapping) :
                   IsSubstr(Upper(product_mapping[i].name), Upper(packing_text))}
    IN  IF hits = {} THEN [found |-> FALSE, product_id |-> Null, rate |-> Null]
        ELSE [found |-> TRUE, product_id |-> ProdId(SetMin(hits) - 1),
              rate |-> IntCell(product_mapping[SetMin(hits)].rate)]

create_products_dataframe ==
    Frame({"product_id", "product_name", "standard_rate"},
          [i \in 1..Len(product_mapping) |->
              [product_id |-> ProdId(i - 1),
               product_name |-> StrCell(product_mapping[i].name),
               standard_rate |-> IntCell(product_mapping[i].rate)]])

(***************************** batch row extractors ************************)

\* the first keyword of the chain (a sequence) that the upper-cased label contains
BranchOf(label, chain) ==
    LET K == {k \in 1..Len(chain) : IsSubstr(chain[k], Upper(label))}
    IN  IF K = {} THEN 0 ELSE SetMin(K)

\* the cell an if / elif chain over the labelled columns leaves in a field:
\* that of the last column with a non-null cell that takes branch b
ChainField(d, row, chain, b, default) ==
    LET K == {i \in 1..Len(d.columns) : notna(row[i]) /\ BranchOf(d.columns[i], chain) = b}
    IN  IF K = {} THEN default ELSE row[SetMax(K)]

\* the first column whose label contains kw and whose cell is not null, or 0
FirstLabelled(d, row, kw) ==
    LET K == {i \in 1..Len(d.columns) : IsSubstr(kw, Upper(d.columns[i])) /\ notna(row[i])}
    IN  IF K = {} THEN 0 ELSE SetMin(K)

\* f"INV_{file_name}_{sheet_name}_{sale_counter}"
SynthInvoice(file_name, sheet_name, sale_counter) ==
    StrCell(<<"I", "N", "V", "_">> \o file_name \o <<"_">> \o sheet_name \o <<"_">> \o Digits(sale_counter))

\* the loop state of process_sales_data
SalesLoopInit ==
    [sales_data |-> <<>>, items_data |-> <<>>, current_invoice |-> Null,
     current_customer |-> Null, current_village |-> Null, current_taluka |-> Null,
     current_district |-> Null, sale_counter |-> 0, raised |-> "none"]

\* the part of the loop body that opens a sale record (experiment.py 250-334)
OpenSale(d, row, st) ==
    IF notna(row[1]) /\ IsDigit(Strip(Str(row[1])))
    THEN LET inv == FirstLabelled(d, row, <<"I", "N", "V">>)
             found == IF inv = 0 THEN Null ELSE row[inv]
             invoice_no == IF Truthy(found) THEN found
                           ELSE SynthInvoice(d.file_name, d.sheet_name, st.sale_counter + 1)
             nm == FirstLabelled(d, row, <<"N", "A", "M", "E">>)
             customer_name == IF nm = 0 THEN StrCell(<<"U", "n", "k", "n", "o", "w", "n", " ", "C", "u", "s", "t", "o", "m", "e", "r">>) ELSE row[nm]
             loc == <<<<"V", "I", "L", "L", "A", "G", "E">>, <<"T", "A", "L", "U", "K", "A">>, <<"D", "I", "S", "T", "R", "I", "C", "T">>>>
             village == ChainField(d, row, loc, 1, st.current_village)
             taluka == ChainField(d, row, loc, 2, st.current_taluka)
             district == ChainField(d, row, loc, 3, st.current_district)
         IN  [st EXCEPT !.sale_counter = st.sale_counter + 1,
                        !.current_invoice = invoice_no,
                        !.current_customer = customer_name,
                        !.current_village = village,
                        !.current_taluka = taluka,
                        !.current_district = district,
                        !.sales_data = Append(st.sales_data,
                            [invoice_no |-> invoice_no, customer_name |-> customer_name,
                             village |-> village, taluka |-> taluka, district |-> district,
                             source_file |-> StrCell(d.file_name),
                             source_sheet |-> StrCell(d.sheet_name)])]
    ELSE st

\* the branch of the quantity / rate / amount chain a column takes (0: none)
ItemBranch(label) ==
    LET u == Upper(label)
    IN  IF IsSubstr(<<"Q", "T", "Y">>, u) \/ IsSubstr(<<"Q", "T", "N">>, u) THEN 1
        ELSE IF IsSubstr(<<"R", "A", "T", "E">>, u) THEN 2
        ELSE IF IsSubstr(<<"A", "M", "T">>, u) /\ ~IsSubstr(<<"F", "I", "N", "A", "L">>, u) THEN 3
        ELSE 0

ItemField(d, row, b, default) ==
    LET K == {i \in 1..Len(d.columns) : notna(row[i]) /\ ItemBranch(d.columns[i]) = b}
    IN  IF K = {} THEN default ELSE row[SetMax(K)]

\* the same step without lines 363-364 and the fallback of line 370: quantity
\* and amount are stored as read
AddItem_AsRead(d, row, st) ==
    LET packing_col == FirstLabelled(d, row, <<"P", "A", "C", "K", "I", "N", "G">>)
        packing == Str(row[packing_col])
        product_info == get_product_info(packing)
    IN  IF packing_col = 0 THEN st
        ELSE IF ~product_info.found THEN st
        ELSE [st EXCEPT !.items_data = Append(st.items_data,
                 [invoice_no |-> st.current_invoice, product_name |-> StrCell(packing),
                  quantity |-> ItemField(d, row, 1, IntCell(0)),
                  rate |-> ItemField(d, row, 2, product_info.rate),
                  amount |-> ItemField(d, row, 3, IntCell(0)),
                  source_file |-> StrCell(d.file_name),
                  source_sheet |-> StrCell(d.sheet_name)])]

\* the part of the loop body that adds a detail line (experiment.py 336-374)
AddItem(d, row, st) ==
    LET packing_col == FirstLabelled(d, row, <<"P", "A", "C", "K", "I", "N", "G">>)
        packing == Str(row[packing_col])
        product_info == get_product_info(packing)
        quantity0 == ItemField(d, row, 1, IntCell(0))
        rate == ItemField(d, row, 2, product_info.rate)
        amount == ItemField(d, row, 3, IntCell(0))
        derive == IsNum(quantity0) /\ quantity0.n = 0 /\ amount.n > 0 /\ rate.n > 0
        quantity == IF derive THEN TrueDiv(amount, rate) ELSE quantity0
    IN  IF packing_col = 0 THEN st
        ELSE IF ~product_info.found THEN st
        ELSE IF \/ ~IsNum(amount)
                \/ IsNum(quantity0) /\ quantity0.n = 0 /\ amount.n > 0 /\ ~IsNum(rate)
                \/ amount.n <= 0 /\ TimesRaises(quantity, rate)
        THEN [st EXCEPT !.raised = "TypeError"]
        ELSE [st EXCEPT !.items_data = Append(st.items_data,
                 [invoice_no |-> st.current_invoice, product_name |-> StrCell(packing),
                  quantity |-> quantity, rate |-> rate,
                  amount |-> IF amount.n > 0 THEN amount ELSE Times(quantity, rate),
                  source_file |-> StrCell(d.file_name),
                  source_sheet |-> StrCell(d.sheet_name)])]

\* one pass of the row loop of process_sales_data
SalesRow(d, row, st) ==
    IF \A j \in 1..Len(row) : isna(row[j]) THEN st
    ELSE AddItem(d, row, OpenSale(d, row, st))

RECURSIVE SalesLoop(_, _, _)
SalesLoop(d, i, st) ==
    IF i > Len(d.rows) \/ st.raised # "none" THEN st
    ELSE SalesLoop(d, i + 1, SalesRow(d, d.rows[i], st))

\* the loop state after the last row; raised names an exception that escaped
process_sales_data(d) == SalesLoop(d, 1, SalesLoopInit)

\* str.zfill(4)
ZFill4(x) == IF Len(x) >= 4 THEN x ELSE [i \in 1..(4 - Len(x)) |-> "0"] \o x

\* a row the customer / distributor extractor skips: blank first cell, or a first
\* cell whose text occurs in a label that contains kw
SkipRow(d, row, kw) ==
    \/ isna(row[1])
    \/ \E j \in 1..Len(d.columns) :
          IsSubstr(Str(row[1]), d.columns[j]) /\ IsSubstr(kw, Upper(d.columns[j]))

customer_chain == <<<<"C", "O", "D", "E">>, <<"N", "A", "M", "E">>, <<"M", "O", "B", "I", "L", "E">>, <<"V", "I", "L", "L", "A", "G", "E">>, <<"T", "A", "L", "U", "K", "A">>, <<"D", "I", "S", "T", "R", "I", "C", "T">>>>

CustomerRecord(d, row) ==
    LET code == ChainField(d, row, customer_chain, 1, Null)
    IN  [customer_code |-> IF isna(code) THEN StrCell(<<>>)
                           ELSE StrCell(ZFill4(Strip(Str(code)))),
         name |-> ChainField(d, row, customer_chain, 2, StrCell(<<>>)),
         mobile |-> ChainField(d, row, customer_chain, 3, StrCell(<<>>)),
         village |-> ChainField(d, row, customer_chain, 4, StrCell(<<>>)),
         taluka |-> ChainField(d, row, customer_chain, 5, StrCell(<<>>)),
         district |-> ChainField(d, row, customer_chain, 6, StrCell(<<>>)),
         source_file |-> StrCell(d.file_name),
         source_sheet |-> StrCell(d.sheet_name)]

RECURSIVE CustomerLoop(_, _, _)
CustomerLoop(d, i, customer_data) ==
    IF i > Len(d.rows) THEN customer_data
    ELSE LET rec == CustomerRecord(d, d.rows[i])
         IN  CustomerLoop(d, i + 1,
                 IF ~SkipRow(d, d.rows[i], <<"C", "O", "D", "E">>)
                    /\ (Truthy(rec.name) \/ Truthy(rec.customer_code))
                 THEN Append(customer_data, rec) ELSE customer_data)

process_customer_data(d) == CustomerLoop(d, 1, <<>>)

distributor_chain ==
    <<<<"N", "A", "M", "E">>, <<"V", "I", "L", "L", "A", "G", "E">>, <<"T", "A", "L", "U", "K", "A">>, <<"D", "I", "S", "T", "R", "I", "C", "T">>, <<"M", "O", "B", "I", "L", "E">>, <<"S", "A", "B", "H", "A", "S", "A", "D">>, <<"C", "O", "N", "T", "A", "C", "T">>, <<"L", "T", "R">>>>

\* the NAME branch splits on MANTRI in the label
NameField(d, row, mantri, default) ==
    LET K == {i \in 1..Len(d.columns) :
                /\ notna(row[i])
                /\ BranchOf(d.columns[i], distributor_chain) = 1
                /\ IsSubstr(<<"M", "A", "N", "T", "R", "I">>, Upper(d.columns[i])) = mantri}
    IN  IF K = {} THEN default ELSE row[SetMax(K)]

DistributorRecord(d, row) ==
    [name |-> NameField(d, row, FALSE, StrCell(<<>>)),
     mantri_name |-> NameField(d, row, TRUE, StrCell(<<>>)),
     village |-> ChainField(d, row, distributor_chain, 2, StrCell(<<>>)),
     taluka |-> ChainField(d, row, distributor_chain, 3, StrCell(<<>>)),
     district |-> ChainField(d, row, distributor_chain, 4, StrCell(<<>>)),
     mantri_mobile |-> ChainField(d, row, distributor_chain, 5, StrCell(<<>>)),
     sabhasad_count |-> ChainField(d, row, distributor_chain, 6, IntCell(0)),
     contact_in_group |-> ChainField(d, row, distributor_chain, 7, IntCell(0)),
     total_liters |-> ChainField(d, row, distributor_chain, 8, IntCell(0)),
     source_file |-> StrCell(d.file_name),
     source_sheet |-> StrCell(d.sheet_name)]

RECURSIVE DistributorLoop(_, _, _)
DistributorLoop(d, i, distributor_data) ==
    IF i > Len(d.rows) THEN distributor_data
    ELSE LET rec == DistributorRecord(d, d.rows[i])
         IN  DistributorLoop(d, i + 1,
                 IF ~SkipRow(d, d.rows[i], <<"N", "A", "M", "E">>)
                    /\ (Truthy(rec.name) \/ Truthy(rec.mantri_name))
                 THEN Append(distributor_data, rec) ELSE distributor_data)

process_distributor_data(d) == DistributorLoop(d, 1, <<>>)

(***************************** relationship builder ************************)

\* dict(zip(f[kcol], f[vcol])): the last row with a key gives its value
DictZip(f, kcol, vcol) ==
    [k \in {Key(f.rows[i][kcol]) : i \in 1..Len(f.rows)} |->
        f.rows[SetMax({i \in 1..Len(f.rows) : Key(f.rows[i][kcol]) = k})][vcol]]

DictPut(m, k, v) == [x \in DOMAIN m \cup {k} |-> IF x = k THEN v ELSE m[x]]

\* f"CUST{new_customer_id:04d}"
CustCode(id) == StrCell(<<"C", "U", "S", "T">> \o ZFill4(Digits(id)))

\* the same loop without line 178: a synthesized name is not remembered
RECURSIVE LinkSales_Forgetful(_, _, _)
LinkSales_Forgetful(rows, i, st) ==
    IF i > Len(rows) THEN st
    ELSE LET row == rows[i]
             customer_name == row.customer_name
             new_customer_id == st.len_customers + Len(st.new_customers) + 1
         IN  IF Key(customer_name) \in DOMAIN st.map
             THEN LinkSales_Forgetful(rows, i + 1,
                     [st EXCEPT !.rows = Append(st.rows,
                         [row EXCEPT !.customer_id = st.map[Key(customer_name)]])])
             ELSE LinkSales_Forgetful(rows, i + 1,
                     [st EXCEPT
                        !.rows = Append(st.rows,
                            [row EXCEPT !.customer_id = IntCell(new_customer_id)]),
                        !.new_customers = Append(st.new_customers,
                            [customer_id |-> IntCell(new_customer_id),
                             customer_code |-> CustCode(new_customer_id),
                             name |-> customer_name,
                             village |-> row.village,
                             taluka |-> row.taluka,
                             district |-> row.district,
                             source_file |-> row.source_file,
                             source_sheet |-> row.source_sheet])])

\* the loop that links sales to customers (experiment.py 158-178)
RECURSIVE LinkSales(_, _, _)
LinkSales(rows, i, st) ==
    IF i > Len(rows) THEN st
    ELSE LET row == rows[i]
             customer_name == row.customer_name
             new_customer_id == st.len_customers + Len(st.new_customers) + 1
         IN  IF Key(customer_name) \in DOMAIN st.map
             THEN LinkSales(rows, i + 1,
                     [st EXCEPT !.rows = Append(st.rows,
                         [row EXCEPT !.customer_id = st.map[Key(customer_name)]])])
             ELSE LinkSales(rows, i + 1,
                     [st EXCEPT
                        !.rows = Append(st.rows,
                            [row EXCEPT !.customer_id = IntCell(new_customer_id)]),
                        !.new_customers = Append(st.new_customers,
                            [customer_id |-> IntCell(new_customer_id),
                             customer_code |-> CustCode(new_customer_id),
                             name |-> customer_name,
                             village |-> row.village,
                             taluka |-> row.taluka,
                             district |-> row.district,
                             source_file |-> row.source_file,
                             source_sheet |-> row.source_sheet]),
                        !.map = DictPut(st.map, Key(customer_name), IntCell(new_customer_id))])

LinkProduct_Fabricate(row, name_to_id) ==
    IF Key(row.product_name) \in DOMAIN name_to_id
    THEN [row EXCEPT !.product_id = name_to_id[Key(row.product_name)]]
    ELSE [row EXCEPT !.product_id = ProdId(Len(product_mapping))]

\* the product link of a sale item (experiment.py 197-199)
LinkProduct(row, name_to_id) ==
    IF Key(row.product_name) \in DOMAIN name_to_id
    THEN [row EXCEPT !.product_id = name_to_id[Key(row.product_name)]]
    ELSE row

\* the sale link of a sale item (experiment.py 193-195)
LinkSale(row, invoice_to_sale_id_map) ==
    IF Key(row.invoice_no) \in DOMAIN invoice_to_sale_id_map
    THEN [row EXCEPT !.sale_id = invoice_to_sale_id_map[Key(row.invoice_no)]]
    ELSE row

\* the three frames establish_relationships returns
establish_relationships(sales, sale_items, customers, name_to_id) ==
    LET linked == LinkSales(sales.rows, 1,
                     [map |-> DictZip(customers, "name", "customer_id"),
                      new_customers |-> <<>>, rows |-> <<>>,
                      len_customers |-> Len(customers.rows)])
        sales1 == Frame(sales.columns, linked.rows)
        customers1 == IF linked.new_customers # <<>>
                      THEN concat(customers, FrameOf(linked.new_customers))
                      ELSE customers
        invoice_map == DictZip(sales1, "invoice_no", "sale_id")
    IN  [sales_df |-> sales1,
         sale_items_df |-> Frame(sale_items.columns,
             [i \in 1..Len(sale_items.rows) |->
                 LinkProduct(LinkSale(sale_items.rows[i], invoice_map), name_to_id)]),
         customers_df |-> customers1]

\* an id column is added only to a frame that has none
add_ids(f, id_column) ==
    IF ~frame_empty(f) /\ id_column \notin f.columns
    THEN Frame(f.columns \cup {id_column},
               [i \in 1..Len(f.rows) |->
                   [c \in f.columns \cup {id_column} |->
                       IF c = id_column THEN IntCell(i) ELSE f.rows[i][c]]])
    ELSE f

(***************************** persisted store *****************************)

\* the store after construction: the catalog and no other record
EmptyStore ==
    [customers |-> <<>>, sales |-> <<>>, distributors |-> <<>>,
     products |-> create_products_dataframe.rows]

\* db.add_customer: customers has no uniqueness constraint, ids are assigned in order
add_customer(store, name, mobile, village, taluka, district, customer_code) ==
    [store EXCEPT !.customers = Append(store.customers,
        [customer_id |-> Len(store.customers) + 1, name |-> name, mobile |-> mobile,
         village |-> village, taluka |-> taluka, district |-> district,
         customer_code |-> customer_code])]

\* db.add_sale: invoice_no is UNIQUE, a repeated invoice adds nothing; the sale
\* date and the rate of an item are stored and read by nothing, they are left out
add_sale(store, invoice_no, customer_id, sale_items) ==
    IF \E i \in 1..Len(store.sales) : store.sales[i].invoice_no = invoice_no
    THEN store
    ELSE [store EXCEPT !.sales = Append(store.sales,
             [sale_id |-> Len(store.sales) + 1, invoice_no |-> invoice_no,
              customer_id |-> customer_id, sale_items |-> sale_items])]

\* INSERT OR REPLACE INTO distributors: no key is declared, the row is added
add_distributor(store, rec) ==
    [store EXCEPT !.distributors = Append(store.distributors, rec)]

\* SELECT customer_id FROM customers WHERE name = ? AND mobile = ?
select_by_name_mobile(store, name, mobile) ==
    {i \in 1..Len(store.customers) :
        store.customers[i].name = name /\ store.customers[i].mobile = mobile}

\* SELECT customer_id FROM customers WHERE customer_code = ?
select_by_code(store, customer_code) ==
    {i \in 1..Len(store.customers) : store.customers[i].customer_code = customer_code}

\* result[0][0] if result else None (0)
FirstId(store, hits) == IF hits = {} THEN 0 ELSE store.customers[SetMin(hits)].customer_id

(***************************** interactive processor ***********************)

\* {row['product_name'].upper(): row['product_id']} over the products table
_create_product_mapping(store) ==
    [k \in {Upper(store.products[i].product_name.s) : i \in 1..Len(store.products)} |->
        store.products[SetMax({i \in 1..Len(store.products) :
                                 Upper(store.products[i].product_name.s) = k})].product_id]

_get_product_id(product_name, mapping) ==
    LET clean_name == Strip(Upper(product_name))
    IN  IF clean_name \in DOMAIN mapping THEN mapping[clean_name] ELSE Null

\* f"CUST_{datetime.now().strftime('%Y%m%d%H%M%S')}": one code per second
TimeCode(t) == <<"C", "U", "S", "T", "_">> \o Digits(t)

\* lookup, then insert and re-read by code; the store and the id obtained
_get_or_create_customer(store, t, name, mobile, village, taluka, district) ==
    LET hits == select_by_name_mobile(store, name, mobile)
        customer_code == TimeCode(t)
        added == add_customer(store, name, mobile, village, taluka, district, customer_code)
    IN  IF hits # {} THEN [db |-> store, customer_id |-> FirstId(store, hits)]
        ELSE [db |-> added,
              customer_id |-> FirstId(added, select_by_code(added, customer_code))]

header_indicators ==
    {<<"D", "A", "T", "E">>, <<"V", "I", "L", "L", "A", "G", "E">>, <<"T", "A", "L", "U", "K", "A">>, <<"D", "I", "S", "T", "R", "I", "C", "T">>, <<"M", "A", "N", "T", "R", "I">>, <<"S", "A", "B", "H", "A", "S", "A", "D">>, <<"C", "O", "N", "T", "A", "C", "T">>,
     <<"T", "O", "T", "A", "L">>, <<"S", "R">>, <<"N", "O">>, <<"N", "A", "M", "E">>}

_is_header_row(row) ==
    IF Len(row) = 0 THEN TRUE
    ELSE LET first_value == IF notna(row[1]) THEN Str(row[1]) ELSE <<>>
         IN  \E indicator \in header_indicators : IsSubstr(indicator, Upper(first_value))

locations ==
    << [location |-> <<"A", "M", "I", "Y", "A", "D">>, v |-> <<"A", "m", "i", "y", "a", "d">>, t |-> <<>>],
       [location |-> <<"A", "M", "V", "A", "D">>, v |-> <<"A", "m", "v", "a", "d">>, t |-> <<>>],
       [location |-> <<"A", "N", "K", "A", "L", "A", "V">>, v |-> <<>>, t |-> <<"A", "n", "k", "a", "l", "a", "v">>],
       [location |-> <<"P", "E", "T", "L", "A", "D">>, v |-> <<>>, t |-> <<"P", "e", "t", "l", "a", "d">>],
       [location |-> <<"B", "O", "R", "S", "A", "D">>, v |-> <<>>, t |-> <<"B", "o", "r", "s", "a", "d">>],
       [location |-> <<"V", "A", "D", "O", "D", "A", "R", "A">>, v |-> <<>>, t |-> <<"V", "a", "d", "o", "d", "a", "r", "a">>],
       [location |-> <<"A", "N", "A", "N", "D">>, v |-> <<>>, t |-> <<"A", "n", "a", "n", "d">>],
       [location |-> <<"N", "A", "D", "I", "A", "D">>, v |-> <<>>, t |-> <<"N", "a", "d", "i", "a", "d">>] >>

\* the first gazetteer entry the upper-cased name contains
_extract_location_from_name(name) ==
    LET K == {i \in 1..Len(locations) : IsSubstr(locations[i].location, Upper(name))}
    IN  IF K = {} THEN [village |-> <<>>, taluka |-> <<>>]
        ELSE [village |-> locations[SetMin(K)].v, taluka |-> locations[SetMin(K)].t]

\* value > 0 on a float
FloatPos(f) ==
    \/ f.k = "inf" /\ ~f.neg
    \/ f.k = "fin" /\ ~f.neg /\ (f.ip > 0 \/ f.fr # <<>>)

\* the loop body of process_sales_sheet on one row: the store it leaves
SalesSheetRow(store, t, mapping, row) ==
    IF _is_header_row(row) \/ isna(row[1]) THEN store
    ELSE LET invoice_no == Str(row[1])
             customer_name == IF Len(row) > 1 THEN Str(row[2]) ELSE <<"U", "n", "k", "n", "o", "w", "n", " ", "C", "u", "s", "t", "o", "m", "e", "r">>
             product_name == IF Len(row) > 2 THEN Str(row[3]) ELSE <<"U", "n", "k", "n", "o", "w", "n", " ", "P", "r", "o", "d", "u", "c", "t">>
             quantity == IF Len(row) > 3 THEN _safe_float(row[4]).value ELSE FloatZero
             got == _get_or_create_customer(store, t, customer_name, <<>>, <<>>, <<>>, <<>>)
             product_id == _get_product_id(product_name, mapping)
         IN  IF got.customer_id # 0 /\ Truthy(product_id) /\ FloatPos(quantity)
             THEN add_sale(got.db, invoice_no, got.customer_id,
                           <<[product_id |-> product_id, quantity |-> quantity]>>)
             ELSE got.db

\* the row passes the test that guards db.add_sale (data_processor.py 117)
ReachesAddSale(store, t, mapping, row) ==
    /\ ~(_is_header_row(row) \/ isna(row[1]))
    /\ LET customer_name == IF Len(row) > 1 THEN Str(row[2]) ELSE <<"U", "n", "k", "n", "o", "w", "n", " ", "C", "u", "s", "t", "o", "m", "e", "r">>
           product_name == IF Len(row) > 2 THEN Str(row[3]) ELSE <<"U", "n", "k", "n", "o", "w", "n", " ", "P", "r", "o", "d", "u", "c", "t">>
           quantity == IF Len(row) > 3 THEN _safe_float(row[4]).value ELSE FloatZero
           got == _get_or_create_customer(store, t, customer_name, <<>>, <<>>, <<>>, <<>>)
       IN  got.customer_id # 0 /\ Truthy(_get_product_id(product_name, mapping))
           /\ FloatPos(quantity)

\* the loop body of process_customer_sheet on one row
CustomerSheetRow(store, row) ==
    IF _is_header_row(row) \/ isna(row[1]) THEN store
    ELSE LET customer_code == Str(row[1])
             name == IF Len(row) > 1 THEN Str(row[2]) ELSE <<"U", "n", "k", "n", "o", "w", "n">>
             mobile == IF Len(row) > 2 THEN Str(row[3]) ELSE <<>>
             guess == _extract_location_from_name(name)
             village_col == IF Len(row) > 3 THEN Str(row[4]) ELSE <<>>
             taluka_col == IF Len(row) > 4 THEN Str(row[5]) ELSE <<>>
             village == IF village_col # <<>>
                           /\ ~\E x \in {<<"V", "I", "L", "L", "A", "G", "E">>, <<"C", "I", "T", "Y">>, <<"T", "O", "W", "N">>} :
                                  IsSubstr(x, Upper(village_col))
                        THEN village_col ELSE guess.village
             taluka == IF taluka_col # <<>>
                          /\ ~\E x \in {<<"T", "A", "L", "U", "K", "A">>, <<"D", "I", "S", "T", "R", "I", "C", "T">>} :
                                 IsSubstr(x, Upper(taluka_col))
                       THEN taluka_col ELSE guess.taluka
         IN  add_customer(store, name, mobile, village, taluka, <<>>, customer_code)

_extract_distributor_name(row) ==
    LET village == _safe_get(row, <<"V", "I", "L", "L", "A", "G", "E">>, 1).value
        taluka == _safe_get(row, <<"T", "A", "L", "U", "K", "A">>, 2).value
    IN  IF village # <<>> /\ taluka # <<>> THEN village \o <<" ", "-", " ">> \o taluka
        ELSE IF village # <<>> THEN village
        ELSE IF taluka # <<>> THEN taluka
        ELSE <<"U", "n", "k", "n", "o", "w", "n", " ", "D", "i", "s", "t", "r", "i", "b", "u", "t", "o", "r">>

\* the same loop body without the test of line 217
DistributorSheetRow_Unchecked(store, labels, cells) ==
    IF _is_header_row(cells) \/ isna(cells[1]) THEN store
    ELSE LET row == Row(labels, cells)
             name == _extract_distributor_name(row)
             village == _safe_get(row, <<"V", "I", "L", "L", "A", "G", "E">>, 1).value
             taluka == _safe_get(row, <<"T", "A", "L", "U", "K", "A">>, 2).value
             sabhasad_count == _safe_get_int(row, <<"S", "A", "B", "H", "A", "S", "A", "D">>, 6)
             contact_in_group == _safe_get_int(row, <<"C", "O", "N", "T", "A", "C", "T", "_", "I", "N", "_", "G", "R", "O", "U", "P">>, 7)
         IN  IF sabhasad_count.raised # "none" \/ contact_in_group.raised # "none"
             THEN store
             ELSE add_distributor(store,
                     [name |-> IF name = <<>> THEN village \o <<" ", "-", " ">> \o taluka ELSE name,
                      village |-> village, taluka |-> taluka,
                      district |-> _safe_get(row, <<"D", "I", "S", "T", "R", "I", "C", "T">>, 3).value,
                      mantri_name |-> _safe_get(row, <<"M", "A", "N", "T", "R", "I", "_", "N", "A", "M", "E">>, 4).value,
                      mantri_mobile |-> _safe_get(row, <<"M", "A", "N", "T", "R", "I", "_", "M", "O", "B", "I", "L", "E">>, 5).value,
                      sabhasad_count |-> sabhasad_count.value,
                      contact_in_group |-> contact_in_group.value])

\* the loop body of process_distributor_sheet on one row; an exception that
\* escapes a field extractor is caught by the row's handler and the row is skipped
DistributorSheetRow(store, labels, cells) ==
    IF _is_header_row(cells) \/ isna(cells[1]) THEN store
    ELSE LET row == Row(labels, cells)
             name == _extract_distributor_name(row)
             village == _safe_get(row, <<"V", "I", "L", "L", "A", "G", "E">>, 1).value
             taluka == _safe_get(row, <<"T", "A", "L", "U", "K", "A">>, 2).value
             district == _safe_get(row, <<"D", "I", "S", "T", "R", "I", "C", "T">>, 3).value
             mantri_name == _safe_get(row, <<"M", "A", "N", "T", "R", "I", "_", "N", "A", "M", "E">>, 4).value
             mantri_mobile == _safe_get(row, <<"M", "A", "N", "T", "R", "I", "_", "M", "O", "B", "I", "L", "E">>, 5).value
             sabhasad_count == _safe_get_int(row, <<"S", "A", "B", "H", "A", "S", "A", "D">>, 6)
             contact_in_group == _safe_get_int(row, <<"C", "O", "N", "T", "A", "C", "T", "_", "I", "N", "_", "G", "R", "O", "U", "P">>, 7)
         IN  IF sabhasad_count.raised # "none" \/ contact_in_group.raised # "none"
             THEN store
             ELSE IF village = <<>> \/ taluka = <<>> THEN store
             ELSE add_distributor(store,
                     [name |-> IF name = <<>> THEN village \o <<" ", "-", " ">> \o taluka ELSE name,
                      village |-> village, taluka |-> taluka, district |-> district,
                      mantri_name |-> mantri_name, mantri_mobile |-> mantri_mobile,
                      sabhasad_count |-> sabhasad_count.value,
                      contact_in_group |-> contact_in_group.value])

(***************************** state after construction ********************)

NoSheet == [columns |-> <<>>, rows |-> <<>>]

\* the empty tables process_all_files starts from
BatchStart ==
    /\ customers_df = Frame(standard_columns.customers, <<>>)
    /\ sales_df = Frame(standard_columns.sales, <<>>)
    /\ sale_items_df = Frame(standard_columns.sale_items, <<>>)
    /\ distributors_df = Frame(standard_columns.distributors, <<>>)
    /\ products_df = Frame(standard_columns.products, <<>>)
    /\ product_name_to_id = <<>>
    /\ sheets_read = 0
    /\ rows_read = 0

\* the database file left by an earlier process_all_files: its customers table
\* holds the customer that run made up for the sale of an unlisted name
PriorOutput ==
    [customers |-> <<[name |-> StrCell(<<"R", "a", "m", "e", "s", "h">>), village |-> Null, taluka |-> Null,
                      district |-> Null, source_file |-> StrCell(<<"a", ".", "x", "l", "s">>),
                      source_sheet |-> StrCell(<<"s", "1">>),
                      customer_code |-> StrCell(<<"C", "U", "S", "T", "0", "0", "0", "1">>), mobile |-> Null,
                      customer_id |-> IntCell(1)]>>,
     products |-> create_products_dataframe.rows,
     sales |-> <<>>, sale_items |-> <<>>, distributors |-> <<>>]

\* DataProcessor(db_manager) on a fresh store; the output directory of the
\* batch standardizer holds the database of its previous run
StoreStart ==
    /\ db = EmptyStore
    /\ now = 0
    /\ dp_product_mapping = _create_product_mapping(EmptyStore)
    /\ output_db = PriorOutput

FileStart ==
    /\ run = 0 /\ sheet_no = 0 /\ row_no = 0
    /\ processed_sheets = 0 /\ processed_rows = 0
    /\ returned = "none"
    /\ entry_db = EmptyStore
    /\ store_failed = FALSE

NoProbe == probe = <<>> /\ result = <<>>

(***************************** classifier runs *****************************)

MaxCols == 3
MaxProbeRows == 1

ProbeLabels ==
    {<<"I", "N", "V", "O", "I", "C", "E">>, <<"P", "R", "O", "D", "U", "C", "T">>, <<"A", "m", "o", "u", "n", "t">>, <<"M", "o", "b", "i", "l", "e">>, <<"V", "I", "L", "L", "A", "G", "E">>, <<"M", "A", "N", "T", "R", "I">>,
     <<"S", "A", "B", "H", "A", "S", "A", "D">>}

X == StrCell(<<"x">>)

\* rows of n cells: blank, full, only the first cell, all but the last cell
ProbeRows(n) ==
    {[j \in 1..n |-> Null], [j \in 1..n |-> X],
     [j \in 1..n |-> IF j = 1 THEN X ELSE Null],
     [j \in 1..n |-> IF j < n THEN X ELSE Null]}

\* label sequences without repetition (read_excel renames repeated labels)
ProbeColumns ==
    UNION {{c \in [1..k -> ProbeLabels] : \A i, j \in 1..k : i # j => c[i] # c[j]} :
           k \in 0..MaxCols}

ProbeSheets ==
    UNION {{[columns |-> c, rows |-> r] :
            r \in UNION {[1..m -> ProbeRows(Len(c))] : m \in 0..MaxProbeRows}} :
           c \in ProbeColumns}

ClassifyInit ==
    /\ mode \in {"batch", "interactive"}
    /\ pc = "read"
    /\ df \in ProbeSheets
    /\ sheet_type = "none"
    /\ extractor = "none"
    /\ NoProbe /\ BatchStart /\ StoreStart /\ FileStart
    /\ store_up = TRUE
    /\ excel_file = <<>>
    /\ calls = <<>>

\* process_all_files, one sheet: classify, then dispatch
ClassifyBatch ==
    /\ mode = "batch" /\ pc = "read"
    /\ sheet_type' = identify_sheet_type(df)
    /\ extractor' = batch_extractor(identify_sheet_type(df))
    /\ pc' = "classified"
    /\ UNCHANGED <<mode, df, probeVars, batchVars, storeVars, fileVars, callVars, envVars, calls>>

\* process_excel_file, one sheet: clean, classify, dispatch
ClassifyInteractive ==
    /\ mode = "interactive" /\ pc = "read"
    /\ sheet_type' = file_sheet_type(_clean_dataframe(df))
    /\ extractor' = file_extractor(file_sheet_type(_clean_dataframe(df)))
    /\ pc' = "classified"
    /\ UNCHANGED <<mode, df, probeVars, batchVars, storeVars, fileVars, callVars, envVars, calls>>

ClassifyNext == ClassifyBatch \/ ClassifyInteractive

SpecClassify == ClassifyInit /\ [][ClassifyNext]_vars

(***************************** field extractor runs ************************)

MaxRowLen == 2

ExtractLabels == {<<"S", "A", "B", "H", "A", "S", "A", "D">>, <<"V", "I", "L", "L", "A", "G", "E">>, <<"S", "A", "B", "H", "A", "S", "A", "D", " ", "C", "O", "U", "N", "T">>}
ExtractNames == {<<"S", "A", "B", "H", "A", "S", "A", "D">>, <<"C", "O", "N", "T", "A", "C", "T", "_", "I", "N", "_", "G", "R", "O", "U", "P">>}

ExtractCells ==
    {Null, IntCell(7), FloatCell(3), StrCell(<<"1", "2">>), StrCell(<<" ", "1", "2", ".", "7", " ">>), StrCell(<<"-", "2", ".", "5">>),
     StrCell(<<"a", "b", "c">>), StrCell(<<" ">>), StrCell(<<"i", "n", "f">>), StrCell(<<"n", "a", "n">>)}

ExtractRows ==
    UNION {{Row(l, c) : l \in {x \in [1..k -> ExtractLabels] :
                                 \A i, j \in 1..k : i # j => x[i] # x[j]},
                        c \in [1..k -> ExtractCells]} : k \in 0..MaxRowLen}

ExtractInit ==
    /\ mode = "interactive"
    /\ pc = "call"
    /\ df = NoSheet
    /\ sheet_type = "none"
    /\ extractor = "none"
    /\ probe \in {[row |-> r, column_name |-> c, default_index |-> i] :
                    r \in ExtractRows, c \in ExtractNames, i \in 0..MaxRowLen}
    /\ result = <<>>
    /\ BatchStart /\ StoreStart /\ FileStart
    /\ store_up = TRUE
    /\ excel_file = <<>>
    /\ calls = <<>>

\* the cell a positional read of probe would reach, if any
ProbeCell == IF Len(probe.row.cells) > probe.default_index
             THEN probe.row.cells[probe.default_index + 1] ELSE Null

\* one call of each field extractor on the same row
Extract ==
    /\ pc = "call"
    /\ result' = [get |-> _safe_get(probe.row, probe.column_name, probe.default_index),
                  get_int |-> _safe_get_int(probe.row, probe.column_name, probe.default_index),
                  float |-> _safe_float(ProbeCell)]
    /\ pc' = "returned"
    /\ UNCHANGED <<mode, classVars, probe, batchVars, storeVars, fileVars, callVars, envVars, calls>>

ExtractNext == Extract

SpecExtract == ExtractInit /\ [][ExtractNext]_vars

\* the cell _safe_get resolves for probe: by label, else by position, else none
ResolvedCell ==
    IF \E j \in 1..Len(probe.row.index) : probe.row.index[j] = probe.column_name
    THEN probe.row.cells[CHOOSE j \in 1..Len(probe.row.index) :
                            probe.row.index[j] = probe.column_name]
    ELSE ProbeCell

\* text of the form [sign] digits [. digits] between blanks
IsFiniteNumberText(text) ==
    LET t == Strip(text)
        body == IF t # <<>> /\ t[1] \in {"-", "+"} THEN Tail(t) ELSE t
    IN  /\ \E i \in 1..Len(body) : IsDigitChar(body[i])
        /\ \A i \in 1..Len(body) : IsDigitChar(body[i]) \/ body[i] = "."
        /\ Cardinality({i \in 1..Len(body) : body[i] = "."}) <= 1

\* C10 as stated: no field extractor raises; a missing, null or non-numeric
\* cell gives the zero value ("" / 0 / 0.0).
C10_ExtractNeverRaises ==
    pc = "returned" =>
        /\ result.get.raised = "none"
        /\ result.get_int.raised = "none"
        /\ result.float.raised = "none"
        /\ isna(ResolvedCell) => result.get.value = <<>> /\ result.get_int.value = 0
        /\ notna(ResolvedCell) /\ ~IsFiniteNumberText(Str(ResolvedCell)) =>
               result.get_int.value = 0
        /\ isna(ProbeCell) \/ ~IsFiniteNumberText(Str(ProbeCell)) =>
               result.float.value = FloatZero


(***************************** pipeline runs *******************************)

MaxSheets == 2
MaxRows == 2
MaxRuns == 2
MaxClock == 1

\* the worksheets of the data directory, in the order os.listdir and sheet_names
\* give them; a file name ends in .xls or .xlsx, and both kinds of name may hold
\* underscores and dots
SheetNames ==
    << [file_name |-> <<"a", ".", "x", "l", "s">>, sheet_name |-> <<"s", "_", "b", ".", "x", "l", "s", "_", "t">>],
       [file_name |-> <<"a", ".", "x", "l", "s", "_", "s", "_", "b", ".", "x", "l", "s">>, sheet_name |-> <<"t">>],
       [file_name |-> <<"b", ".", "x", "l", "s", "x">>, sheet_name |-> <<"s", "1">>],
       [file_name |-> <<"b", ".", "x", "l", "s", "x">>, sheet_name |-> <<"s", "2">>] >>

T(x) == StrCell(x)

\* the sales scenario of the specification: one serial-numbered row
ScenarioColumns == <<<<"S", "R", " ", "N", "O">>, <<"I", "N", "V", "O", "I", "C", "E">>, <<"C", "U", "S", "T", "O", "M", "E", "R", " ", "N", "A", "M", "E">>, <<"P", "R", "O", "D", "U", "C", "T">>, <<"Q", "T", "Y">>, <<"R", "A", "T", "E">>>>
ScenarioRow ==
    <<IntCell(1), T(<<"I", "N", "V", "0", "0", "1">>), T(<<"R", "a", "m", "e", "s", "h">>), T(<<"5", " ", "L", "T", "R", " ", "S", "T", "E", "E", "L", " ", "B", "A", "R", "N", "I">>), IntCell(2), IntCell(680)>>

CustomerColumns == <<<<"C", "O", "D", "E">>, <<"N", "A", "M", "E">>, <<"M", "O", "B", "I", "L", "E">>, <<"V", "I", "L", "L", "A", "G", "E">>>>
DistributorColumns == <<<<"M", "A", "N", "T", "R", "I">>, <<"V", "I", "L", "L", "A", "G", "E">>, <<"T", "A", "L", "U", "K", "A">>, <<"S", "A", "B", "H", "A", "S", "A", "D">>>>

\* worksheet layouts of the batch standardizer and rows that occur under them
BatchLayouts ==
    { [columns |-> <<<<"S", "R", " ", "N", "O">>, <<"I", "N", "V", " ", "N", "O">>, <<"N", "A", "M", "E">>, <<"P", "A", "C", "K", "I", "N", "G">>, <<"Q", "T", "Y">>>>,
       pool |-> { <<T(<<"1">>), T(<<"I", "N", "V", "0", "0", "1">>), T(<<"R", "a", "m", "e", "s", "h">>), T(<<"5", " ", "L", "T", "R", " ", "S", "T", "E", "E", "L", " ", "B", "A", "R", "N", "I">>), FloatCell(2)>>,
                  <<Null, Null, Null, T(<<"U", "n", "k", "n", "o", "w", "n", " ", "J", "u", "m", "b", "o", " ", "P", "a", "c", "k">>), FloatCell(1)>>,
                  <<Null, Null, Null, T(<<"5", " ", "l", "t", "r", " ", "s", "t", "e", "e", "l", " ", "b", "a", "r", "n", "i">>), FloatCell(3)>>,
                  <<T(<<"2">>), Null, T(<<"S", "u", "r", "e", "s", "h">>), Null, Null>> }],
      [columns |-> <<<<"S", "R", " ", "N", "O">>, <<"N", "A", "M", "E">>, <<"P", "A", "C", "K", "I", "N", "G">>, <<"Q", "T", "Y">>, <<"A", "M", "T">>>>,
       pool |-> { <<IntCell(1), T(<<"M", "a", "h", "e", "s", "h">>), T(<<"5", " ", "L", "T", "R", " ", "S", "T", "E", "E", "L", " ", "B", "A", "R", "N", "I">>), IntCell(4), IntCell(2720)>>,
                  <<IntCell(2), T(<<"D", "i", "n", "e", "s", "h">>), T(<<"5", " ", "L", "T", "R", " ", "S", "T", "E", "E", "L", " ", "B", "A", "R", "N", "I">>), IntCell(4), T(<<"p", "e", "n", "d", "i", "n", "g">>)>> }],
      [columns |-> ScenarioColumns, pool |-> { ScenarioRow }],
      [columns |-> CustomerColumns,
       pool |-> { <<T(<<"7">>), T(<<"R", "a", "m", "e", "s", "h">>), T(<<"9", "8", "7", "6", "5">>), T(<<"A", "m", "i", "y", "a", "d">>)>>,
                  <<Null, T(<<"S", "u", "r", "e", "s", "h", " ", "P", "a", "t", "e", "l">>), T(<<"9", "8", "7", "6", "5", "4", "3", "2", "1", "0">>), T(<<"A", "m", "i", "y", "a", "d">>)>> }],
      [columns |-> <<<<"M", "A", "N", "T", "R", "I">>, <<"S", "A", "B", "H", "A", "S", "A", "D">>>>,
       pool |-> { <<T(<<"P", "a", "t", "e", "l">>), FloatCell(5)>> }],
      [columns |-> DistributorColumns,
       pool |-> { <<T(<<"P", "a", "t", "e", "l">>), T(<<"A", "m", "v", "a", "d">>), T(<<"P", "e", "t", "l", "a", "d">>), FloatCell(5)>> }],
      [columns |-> <<<<"R", "E", "M", "A", "R", "K", "S">>>>,
       pool |-> { <<T(<<"x">>)>> }] }

\* worksheet layouts of the interactive processor
FileLayouts ==
    { [columns |-> <<<<"I", "N", "V", "O", "I", "C", "E">>, <<"C", "U", "S", "T", "O", "M", "E", "R">>, <<"P", "R", "O", "D", "U", "C", "T">>, <<"Q", "U", "A", "N", "T", "I", "T", "Y">>, <<"A", "M", "O", "U", "N", "T">>>>,
       pool |-> { <<T(<<"I", "N", "V", "0", "0", "1">>), T(<<"R", "a", "m", "e", "s", "h">>), T(<<" ", "5", " ", "l", "t", "r", " ", "s", "t", "e", "e", "l", " ", "b", "a", "r", "n", "i">>), FloatCell(2),
                    FloatCell(1360)>>,
                  <<T(<<"I", "N", "V", "0", "0", "2">>), T(<<"S", "u", "r", "e", "s", "h">>), T(<<"U", "n", "k", "n", "o", "w", "n", " ", "J", "u", "m", "b", "o", " ", "P", "a", "c", "k">>), FloatCell(1),
                    FloatCell(100)>> }],
      [columns |-> ScenarioColumns, pool |-> { ScenarioRow }],
      [columns |-> CustomerColumns,
       pool |-> { <<T(<<"C", "0", "0", "1">>), T(<<"R", "a", "m", "e", "s", "h">>), T(<<"9", "8", "7", "6", "5">>), T(<<"A", "m", "i", "y", "a", "d">>)>>,
                  <<Null, T(<<"S", "u", "r", "e", "s", "h", " ", "P", "a", "t", "e", "l">>), T(<<"9", "8", "7", "6", "5", "4", "3", "2", "1", "0">>), T(<<"A", "m", "i", "y", "a", "d">>)>> }],
      [columns |-> DistributorColumns,
       pool |-> { <<T(<<"P", "a", "t", "e", "l">>), T(<<"A", "m", "v", "a", "d">>), T(<<"P", "e", "t", "l", "a", "d">>), FloatCell(5)>> }],
      [columns |-> <<<<"R", "E", "M", "A", "R", "K", "S">>>>,
       pool |-> { <<T(<<"x">>)>> }] }

\* the worksheets of at least lo and at most hi rows over the layouts
Sheets(layouts, lo, hi) ==
    UNION {{[columns |-> l.columns, rows |-> r] :
            r \in UNION {[1..m -> l.pool] : m \in lo..hi}} : l \in layouts}

SheetRows(ss) == [i \in 1..Len(ss) |-> Len(ss[i].rows)]

RECURSIVE Sum(_)
Sum(ns) == IF ns = <<>> THEN 0 ELSE Head(ns) + Sum(Tail(ns))

\* workbooks of one to MaxSheets non-blank worksheets and at most MaxRows rows
Files ==
    UNION {{f \in [1..k -> Sheets(FileLayouts, 1, MaxRows)] : Sum(SheetRows(f)) <= MaxRows} :
           k \in 1..MaxSheets}

BatchInit ==
    /\ mode = "batch" /\ pc = "loop"
    /\ df = NoSheet /\ sheet_type = "none" /\ extractor = "none"
    /\ NoProbe /\ BatchStart /\ StoreStart /\ FileStart
    /\ store_up = TRUE
    /\ excel_file = <<>>
    /\ calls = <<>>

InteractiveInit ==
    /\ mode = "interactive" /\ pc = "idle"
    /\ df = NoSheet /\ sheet_type = "none" /\ extractor = "none"
    /\ NoProbe /\ BatchStart /\ StoreStart /\ FileStart
    /\ store_up = TRUE
    /\ excel_file \in Files
    /\ calls = <<>>

Init == BatchInit \/ InteractiveInit

\* pd.read_excel of the next worksheet (experiment.py 64-67)
ReadSheet ==
    /\ mode = "batch" /\ pc = "loop"
    /\ sheets_read < MaxSheets /\ sheets_read < Len(SheetNames)
    /\ \E s \in Sheets(BatchLayouts, 0, MaxRows - rows_read) :
          /\ df' = [file_name |-> SheetNames[sheets_read + 1].file_name,
                    sheet_name |-> SheetNames[sheets_read + 1].sheet_name,
                    columns |-> s.columns, rows |-> s.rows]
          /\ rows_read' = rows_read + Len(s.rows)
    /\ sheets_read' = sheets_read + 1
    /\ pc' = "sheet"
    /\ UNCHANGED <<mode, sheet_type, extractor, probeVars, storeVars, fileVars, callVars,
                   envVars, calls, customers_df, sales_df, sale_items_df, distributors_df,
                   products_df, product_name_to_id>>

\* the body of the sheet loop (experiment.py 75-104): classify, extract, append.
\* An exception leaves the tables as they are; the KeyError of line 92 comes
\* after the customers were appended, and customer_name_to_id is read by nothing.
ProcessSheet ==
    /\ mode = "batch" /\ pc = "sheet"
    /\ sheet_type' = identify_sheet_type(df)
    /\ extractor' = batch_extractor(identify_sheet_type(df))
    /\ LET sales == process_sales_data(df)
           customer_data == process_customer_data(df)
           distributor_data == process_distributor_data(df)
           is(t) == identify_sheet_type(df) = t
       IN  /\ sales_df' = IF is("sales") /\ sales.raised = "none" /\ sales.sales_data # <<>>
                          THEN concat(sales_df, FrameOf(sales.sales_data)) ELSE sales_df
           /\ sale_items_df' =
                  IF is("sales") /\ sales.raised = "none" /\ sales.items_data # <<>>
                  THEN concat(sale_items_df, FrameOf(sales.items_data)) ELSE sale_items_df
           /\ customers_df' = IF is("customers") /\ customer_data # <<>>
                              THEN concat(customers_df, FrameOf(customer_data))
                              ELSE customers_df
           /\ distributors_df' = IF is("distributors") /\ distributor_data # <<>>
                                 THEN concat(distributors_df, FrameOf(distributor_data))
                                 ELSE distributors_df
    /\ pc' = "loop"
    /\ UNCHANGED <<mode, df, probeVars, storeVars, fileVars, callVars, envVars, calls,
                   products_df, product_name_to_id, sheets_read, rows_read>>

\* the rest of process_all_files (experiment.py 109-147): catalog, ids,
\* relationships; create_relational_database then writes every table with
\* to_sql(if_exists='replace') (609-613)
Finish ==
    /\ mode = "batch" /\ pc = "loop"
    /\ LET products == create_products_dataframe
           name_to_id == DictZip(products, "product_name", "product_id")
           linked == establish_relationships(add_ids(sales_df, "sale_id"),
                                             add_ids(sale_items_df, "item_id"),
                                             add_ids(customers_df, "customer_id"),
                                             name_to_id)
       IN  /\ products_df' = products
           /\ product_name_to_id' = name_to_id
           /\ sales_df' = linked.sales_df
           /\ sale_items_df' = linked.sale_items_df
           /\ customers_df' = linked.customers_df
           /\ distributors_df' = add_ids(distributors_df, "distributor_id")
           /\ output_db' = [customers |-> linked.customers_df.rows,
                            products |-> products.rows,
                            sales |-> linked.sales_df.rows,
                            sale_items |-> linked.sale_items_df.rows,
                            distributors |-> add_ids(distributors_df, "distributor_id").rows]
    /\ pc' = "done"
    /\ UNCHANGED <<mode, classVars, probeVars, storeVars, fileVars, callVars, store_up, calls,
                   sheets_read, rows_read>>

\* a call of process_excel_file begins
BeginRun ==
    /\ mode = "interactive" /\ pc = "idle"
    /\ run < MaxRuns
    /\ run' = run + 1
    /\ sheet_no' = 0
    /\ processed_sheets' = 0
    /\ returned' = "none"
    /\ entry_db' = db
    /\ store_failed' = FALSE
    /\ pc' = "file"
    /\ UNCHANGED <<mode, classVars, probeVars, batchVars, storeVars, excel_file,
                   dp_product_mapping, row_no, processed_rows, envVars, calls>>

\* the next worksheet is read, cleaned and classified (data_processor.py 35-54)
OpenSheet ==
    /\ mode = "interactive" /\ pc = "file"
    /\ sheet_no < Len(excel_file)
    /\ sheet_no' = sheet_no + 1
    /\ df' = _clean_dataframe(excel_file[sheet_no + 1])
    /\ sheet_type' = file_sheet_type(_clean_dataframe(excel_file[sheet_no + 1]))
    /\ extractor' = file_extractor(file_sheet_type(_clean_dataframe(excel_file[sheet_no + 1])))
    /\ row_no' = 0
    /\ processed_rows' = 0
    /\ pc' = IF file_sheet_type(_clean_dataframe(excel_file[sheet_no + 1])) = "unknown"
             THEN "file" ELSE "rows"
    /\ UNCHANGED <<mode, probeVars, batchVars, storeVars, excel_file, dp_product_mapping,
                   run, processed_sheets, returned, entry_db, store_failed, envVars, calls>>

\* the row loop moves on; after the last row the extractor returns
\* processed_rows > 0 and the sheet loop counts the sheet (43-53)
NextRow ==
    /\ row_no' = row_no + 1
    /\ pc' = IF row_no + 1 = Len(df.rows) THEN "file" ELSE "rows"
    /\ processed_sheets' = IF row_no + 1 = Len(df.rows) /\ processed_rows' > 0
                           THEN processed_sheets + 1 ELSE processed_sheets
    /\ UNCHANGED <<mode, classVars, probeVars, batchVars, now, excel_file,
                   dp_product_mapping, run, sheet_no, returned, entry_db, envVars, calls>>

\* a row that makes no store call
Untouched == UNCHANGED <<db, processed_rows, store_failed>>

\* a store call of the row failed: the handler of the row (or of
\* _get_or_create_customer) logs it and the loop goes on
Swallowed == store_failed' = TRUE /\ UNCHANGED <<db, processed_rows>>

\* process_sales_sheet handles one row; for an invoice number the store holds
\* already, add_sale adds nothing and either raises or returns
SalesSheetStep ==
    /\ mode = "interactive" /\ pc = "rows" /\ extractor = "process_sales_sheet"
    /\ LET row == df.rows[row_no + 1]
           after == SalesSheetRow(db, now, dp_product_mapping, row)
       IN  IF _is_header_row(row) \/ isna(row[1]) THEN Untouched
           ELSE IF ~store_up THEN Swallowed
           ELSE /\ db' = after
                /\ store_failed' = store_failed
                /\ IF ~ReachesAddSale(db, now, dp_product_mapping, row)
                   THEN processed_rows' = processed_rows
                   ELSE IF Len(after.sales) > Len(db.sales)
                   THEN processed_rows' = processed_rows + 1
                   ELSE processed_rows' \in {processed_rows, processed_rows + 1}
    /\ NextRow

\* process_customer_sheet handles one row
CustomerSheetStep ==
    /\ mode = "interactive" /\ pc = "rows" /\ extractor = "process_customer_sheet"
    /\ LET after == CustomerSheetRow(db, df.rows[row_no + 1])
       IN  IF after = db THEN Untouched
           ELSE IF ~store_up THEN Swallowed
           ELSE /\ db' = after
                /\ processed_rows' = processed_rows + 1
                /\ store_failed' = store_failed
    /\ NextRow

\* process_distributor_sheet handles one row
DistributorSheetStep ==
    /\ mode = "interactive" /\ pc = "rows" /\ extractor = "process_distributor_sheet"
    /\ LET after == DistributorSheetRow(db, df.columns, df.rows[row_no + 1])
       IN  IF after = db THEN Untouched
           ELSE IF ~store_up THEN Swallowed
           ELSE /\ db' = after
                /\ processed_rows' = processed_rows + 1
                /\ store_failed' = store_failed
    /\ NextRow

\* process_excel_file returns processed_sheets > 0 (56); no exception leaves it (58-60)
EndRun ==
    /\ mode = "interactive" /\ pc = "file"
    /\ sheet_no = Len(excel_file)
    /\ returned' = IF processed_sheets > 0 THEN "True" ELSE "False"
    /\ pc' = "idle"
    /\ UNCHANGED <<mode, classVars, probeVars, batchVars, storeVars, fileVars,
                   processed_sheets, processed_rows, entry_db, store_failed, envVars, calls>>

\* a second passes
Tick ==
    /\ mode = "interactive"
    /\ pc \in {"file", "rows", "race"}
    /\ now < MaxClock
    /\ now' = now + 1
    /\ UNCHANGED <<mode, pc, classVars, probeVars, batchVars, db, fileVars, callVars,
                   envVars, calls>>

Next ==
    \/ ReadSheet \/ ProcessSheet \/ Finish
    \/ BeginRun \/ OpenSheet \/ SalesSheetStep \/ CustomerSheetStep \/ DistributorSheetStep
    \/ EndRun \/ Tick

Spec == Init /\ [][Next]_vars

\* the interactive processor after its store has become unreachable
OutageInit ==
    /\ mode = "interactive" /\ pc = "idle"
    /\ df = NoSheet /\ sheet_type = "none" /\ extractor = "none"
    /\ NoProbe /\ BatchStart /\ StoreStart /\ FileStart
    /\ store_up = FALSE
    /\ excel_file \in Files
    /\ calls = <<>>

OutageNext ==
    \/ BeginRun \/ OpenSheet \/ SalesSheetStep \/ CustomerSheetStep \/ DistributorSheetStep
    \/ EndRun \/ Tick

SpecOutage == OutageInit /\ [][OutageNext]_vars
(***************************** concurrent resolutions **********************)

\* two ingestion invocations that share the store
Invocations == {"p", "q"}

RaceNames == {<<"R", "a", "m", "e", "s", "h">>, <<"S", "u", "r", "e", "s", "h">>}

RaceInit ==
    /\ mode = "interactive" /\ pc = "race"
    /\ df = NoSheet /\ sheet_type = "none" /\ extractor = "none"
    /\ NoProbe /\ BatchStart /\ StoreStart /\ FileStart
    /\ store_up = TRUE
    /\ excel_file = <<>>
    /\ calls \in [Invocations ->
                    {[at |-> "lookup", name |-> n, mobile |-> <<>>, customer_code |-> <<>>,
                      customer_id |-> 0] : n \in RaceNames}]

\* the first query of _get_or_create_customer (data_processor.py 320-326)
Lookup(p) ==
    /\ pc = "race" /\ calls[p].at = "lookup"
    /\ LET hits == select_by_name_mobile(db, calls[p].name, calls[p].mobile)
       IN  calls' = [calls EXCEPT ![p] =
                IF hits # {}
                THEN [@ EXCEPT !.at = "done", !.customer_id = FirstId(db, hits)]
                ELSE [@ EXCEPT !.at = "insert"]]
    /\ UNCHANGED <<mode, pc, classVars, probeVars, batchVars, storeVars, fileVars, callVars, envVars>>

\* the code is taken from the clock and the customer is added (329-330)
Insert(p) ==
    /\ pc = "race" /\ calls[p].at = "insert"
    /\ db' = add_customer(db, calls[p].name, calls[p].mobile, <<>>, <<>>, <<>>, TimeCode(now))
    /\ calls' = [calls EXCEPT ![p] = [@ EXCEPT !.at = "reread",
                                                !.customer_code = TimeCode(now)]]
    /\ UNCHANGED <<mode, pc, classVars, probeVars, batchVars, now, fileVars, callVars, envVars>>

\* the id is read back by code (333-337)
Reread(p) ==
    /\ pc = "race" /\ calls[p].at = "reread"
    /\ calls' = [calls EXCEPT ![p] =
            [@ EXCEPT !.at = "done",
                      !.customer_id = FirstId(db, select_by_code(db, calls[p].customer_code))]]
    /\ UNCHANGED <<mode, pc, classVars, probeVars, batchVars, storeVars, fileVars, callVars, envVars>>

RaceNext ==
    \/ \E p \in Invocations : Lookup(p)
    \/ \E p \in Invocations : Insert(p)
    \/ \E p \in Invocations : Reread(p)
    \/ Tick

SpecRace == RaceInit /\ [][RaceNext]_vars

(***************************** relationship runs ***************************)

\* establish_relationships applied to a customers table and a sales table
MaxLinkCustomers == 2
MaxLinkSales == 2

LinkIds == {Null, IntCell(1), IntCell(2)}
LinkCustomerNames == {<<"R", "a", "m", "e", "s", "h">>, <<"S", "u", "r", "e", "s", "h">>}
LinkSaleNames == {<<"R", "a", "m", "e", "s", "h">>, <<"M", "a", "h", "e", "s", "h">>, <<"U", "n", "k", "n", "o", "w", "n", " ", "C", "u", "s", "t", "o", "m", "e", "r">>}

\* a record of the customers table: a name and an id, blank when none was assigned
LinkCustomer(name, id) ==
    Extend([name |-> StrCell(name), customer_id |-> id], standard_columns.customers)

\* a record of the sales table as process_sales_data leaves it
LinkSaleRow(name) ==
    Extend([invoice_no |-> StrCell(<<"I", "N", "V", "0", "0", "1">>), customer_name |-> StrCell(name),
            village |-> Null, taluka |-> Null, district |-> Null,
            source_file |-> StrCell(<<"a", ".", "x", "l", "s">>), source_sheet |-> StrCell(<<"s", "1">>)],
           standard_columns.sales \cup {"customer_name", "village", "taluka", "district"})

LinkCustomerTables ==
    UNION {[1..n -> {LinkCustomer(nm, id) : nm \in LinkCustomerNames, id \in LinkIds}] :
           n \in 0..MaxLinkCustomers}

LinkSalesTables ==
    UNION {[1..n -> {LinkSaleRow(nm) : nm \in LinkSaleNames}] : n \in 0..MaxLinkSales}

LinkInit ==
    /\ mode = "batch" /\ pc = "link"
    /\ df = NoSheet /\ sheet_type = "none" /\ extractor = "none"
    /\ NoProbe /\ StoreStart /\ FileStart
    /\ store_up = TRUE
    /\ customers_df \in {Frame(standard_columns.customers, r) : r \in LinkCustomerTables}
    /\ sales_df \in {Frame(standard_columns.sales
                               \cup {"customer_name", "village", "taluka", "district"}, r) :
                         r \in LinkSalesTables}
    /\ sale_items_df = Frame(standard_columns.sale_items, <<>>)
    /\ distributors_df = Frame(standard_columns.distributors, <<>>)
    /\ products_df = create_products_dataframe
    /\ product_name_to_id = DictZip(create_products_dataframe, "product_name", "product_id")
    /\ sheets_read = 0 /\ rows_read = 0
    /\ excel_file = <<>>
    /\ calls = <<>>

\* one call of establish_relationships (experiment.py 149-201)
Link ==
    /\ mode = "batch" /\ pc = "link"
    /\ LET linked == establish_relationships(sales_df, sale_items_df, customers_df,
                                             product_name_to_id)
       IN  /\ sales_df' = linked.sales_df
           /\ sale_items_df' = linked.sale_items_df
           /\ customers_df' = linked.customers_df
    /\ pc' = "linked"
    /\ UNCHANGED <<mode, classVars, probeVars, storeVars, fileVars, callVars, envVars, calls,
                   distributors_df, products_df, product_name_to_id, sheets_read, rows_read>>

LinkNext == Link

SpecLink == LinkInit /\ [][LinkNext]_vars
(***************************************************************************)
(* Single worksheets chosen for the row-level rules of the extractors:     *)
(* grouping of sales rows, derived quantities and amounts, header-like     *)
(* first cells and distributor rows without village and taluka.            *)
(***************************************************************************)

MaxGroupRows == 2
MaxAmount == 2

\* the dtype pd.read_excel gives a column (experiment.py 67, data_processor.py
\* 36): whole numbers stay int64 only in a column of whole numbers without a
\* blank cell; with a blank or a float beside them they are float64
read_excel(columns, raw) ==
    LET numeric(j) == \A i \in 1..Len(raw) : raw[i][j].t \in {"null", "int", "float"}
        widened(j) == numeric(j) /\ \E i \in 1..Len(raw) : raw[i][j].t \in {"null", "float"}
    IN  [columns |-> columns,
         rows |-> [i \in 1..Len(raw) |->
                      [j \in 1..Len(columns) |->
                          IF raw[i][j].t = "int" /\ widened(j)
                          THEN FloatCell(raw[i][j].n) ELSE raw[i][j]]]]

GroupingColumns == <<<<"S", "R", " ", "N", "O">>, <<"I", "N", "V", " ", "N", "O">>, <<"N", "A", "M", "E">>, <<"V", "I", "L", "L", "A", "G", "E">>, <<"P", "A", "C", "K", "I", "N", "G">>, <<"Q", "T", "Y">>>>
NumericColumns == <<<<"S", "R", " ", "N", "O">>, <<"I", "N", "V", " ", "N", "O">>, <<"P", "A", "C", "K", "I", "N", "G">>, <<"Q", "T", "Y">>, <<"R", "A", "T", "E">>, <<"A", "M", "T">>>>

\* a blank cell or a whole number up to MaxAmount
Amounts == {Null} \cup {IntCell(k) : k \in 0..MaxAmount}

\* worksheets handed to process_all_files, as the user typed them
RowLayouts ==
    { [columns |-> GroupingColumns,
       pool |-> { <<IntCell(1), T(<<"I", "N", "V", "0", "0", "1">>), T(<<"R", "a", "m", "e", "s", "h">>), T(<<"A", "m", "i", "y", "a", "d">>),
                    T(<<"5", " ", "L", "T", "R", " ", "S", "T", "E", "E", "L", " ", "B", "A", "R", "N", "I">>), IntCell(2)>>,
                  <<Null, Null, Null, Null, T(<<"5", " ", "L", "T", "R", " ", "S", "T", "E", "E", "L", " ", "B", "A", "R", "N", "I">>), IntCell(3)>>,
                  <<IntCell(2), T(<<"I", "N", "V", "0", "0", "2">>), Null, Null, T(<<"5", " ", "L", "T", "R", " ", "S", "T", "E", "E", "L", " ", "B", "A", "R", "N", "I">>),
                    IntCell(1)>> }],
      [columns |-> CustomerColumns,
       pool |-> { <<T(<<"T", "O", "T", "A", "L">>), T(<<"R", "a", "m", "e", "s", "h">>), T(<<"9", "8", "7", "6", "5">>), T(<<"A", "m", "i", "y", "a", "d">>)>> }],
      [columns |-> <<<<"M", "A", "N", "T", "R", "I">>, <<"S", "A", "B", "H", "A", "S", "A", "D">>>>,
       pool |-> { <<T(<<"P", "a", "t", "e", "l">>), IntCell(5)>> }] }

NumericSheets ==
    {[columns |-> NumericColumns,
      rows |-> << <<T(<<"1">>), T(<<"I", "N", "V", "0", "0", "1">>), T(<<"5", " ", "L", "T", "R", " ", "S", "T", "E", "E", "L", " ", "B", "A", "R", "N", "I">>), q, r, a>> >>] :
        q \in Amounts, r \in Amounts, a \in Amounts}

\* worksheets handed to process_excel_file
RowFileLayouts ==
    { [columns |-> DistributorColumns,
       pool |-> { <<T(<<"P", "a", "t", "e", "l">>), T(<<"A", "m", "v", "a", "d">>), T(<<"P", "e", "t", "l", "a", "d">>), IntCell(5)>>,
                  <<T(<<"S", "h", "a", "h">>), Null, Null, IntCell(3)>> }],
      [columns |-> CustomerColumns,
       pool |-> { <<T(<<"C", "0", "0", "1">>), T(<<"R", "a", "m", "e", "s", "h">>), T(<<"9", "8", "7", "6", "5">>), T(<<"A", "m", "i", "y", "a", "d">>)>>,
                  <<T(<<"T", "O", "T", "A", "L">>), T(<<"S", "u", "r", "e", "s", "h">>), T(<<"9", "8", "7", "6", "6">>), T(<<"A", "m", "v", "a", "d">>)>> }],
      [columns |-> <<<<"I", "N", "V", "O", "I", "C", "E">>, <<"C", "U", "S", "T", "O", "M", "E", "R">>, <<"P", "R", "O", "D", "U", "C", "T">>, <<"Q", "U", "A", "N", "T", "I", "T", "Y">>, <<"A", "M", "O", "U", "N", "T">>>>,
       pool |-> { <<T(<<"I", "N", "V", "0", "0", "1">>), T(<<"R", "a", "m", "e", "s", "h">>), T(<<"5", " ", "L", "T", "R", " ", "S", "T", "E", "E", "L", " ", "B", "A", "R", "N", "I">>), IntCell(2),
                    IntCell(1360)>>,
                  <<T(<<"T", "O", "T", "A", "L">>), T(<<"R", "a", "m", "e", "s", "h">>), T(<<"5", " ", "L", "T", "R", " ", "S", "T", "E", "E", "L", " ", "B", "A", "R", "N", "I">>), IntCell(2),
                    IntCell(1360)>> }] }

RowSheets == Sheets(RowLayouts, 1, MaxGroupRows) \cup NumericSheets

RowFiles == {<<read_excel(s.columns, s.rows)>> : s \in Sheets(RowFileLayouts, 1, MaxGroupRows)}

\* process_all_files has read the only worksheet of the only workbook
RowsBatchInit ==
    /\ mode = "batch" /\ pc = "sheet"
    /\ \E s \in RowSheets :
          df = [file_name |-> SheetNames[1].file_name,
                sheet_name |-> SheetNames[1].sheet_name,
                columns |-> s.columns, rows |-> read_excel(s.columns, s.rows).rows]
    /\ sheet_type = "none" /\ extractor = "none"
    /\ NoProbe /\ StoreStart /\ FileStart
    /\ customers_df = Frame(standard_columns.customers, <<>>)
    /\ sales_df = Frame(standard_columns.sales, <<>>)
    /\ sale_items_df = Frame(standard_columns.sale_items, <<>>)
    /\ distributors_df = Frame(standard_columns.distributors, <<>>)
    /\ products_df = Frame(standard_columns.products, <<>>)
    /\ product_name_to_id = <<>>
    /\ sheets_read = 1
    /\ rows_read = Len(df.rows)
    /\ store_up = TRUE
    /\ excel_file = <<>>
    /\ calls = <<>>

RowsFileInit ==
    /\ mode = "interactive" /\ pc = "idle"
    /\ df = NoSheet /\ sheet_type = "none" /\ extractor = "none"
    /\ NoProbe /\ BatchStart /\ StoreStart /\ FileStart
    /\ store_up = TRUE
    /\ excel_file \in RowFiles
    /\ calls = <<>>

RowsInit == RowsBatchInit \/ RowsFileInit

RowsNext ==
    \/ ProcessSheet
    \/ BeginRun \/ OpenSheet \/ SalesSheetStep \/ CustomerSheetStep \/ DistributorSheetStep
    \/ EndRun

SpecRows == RowsInit /\ [][RowsNext]_vars
(***************************** classifier claims ***************************)

Entities == {"sales", "customers", "distributors"}

\* the keyword set each entry point evaluates for an entity
KeywordSet(m, e) ==
    IF m = "batch"
    THEN CASE e = "sales" -> sales_keywords
           [] e = "customers" -> customer_keywords
           [] OTHER -> distributor_keywords
    ELSE CASE e = "sales" -> sales_required
           [] e = "customers" -> customer_required
           [] OTHER -> distributor_required

HasCell(d) == \E i \in 1..Len(d.rows) : \E j \in 1..Len(d.rows[i]) : notna(d.rows[i][j])

LabelHas(kws, label) == \E k \in kws : IsSubstr(k, Upper(Strip(label)))

SheetHas(kws, d) == \E j \in 1..Len(d.columns) : LabelHas(kws, d.columns[j])

OnlyEntity(m, e, d) ==
    /\ SheetHas(KeywordSet(m, e), d)
    /\ \A o \in Entities \ {e} : ~SheetHas(KeywordSet(m, o), d)

\* columns that keep a non-null cell
LiveColumns(d) ==
    {j \in 1..Len(d.columns) : \E i \in 1..Len(d.rows) : notna(d.rows[i][j])}

LiveMatches(e, d) ==
    Cardinality({j \in LiveColumns(d) : LabelHas(KeywordSet("interactive", e), d.columns[j])})

\* keywords of the set found among the labels the entry point looks at: every
\* label in batch mode, those of the columns that keep a cell in interactive mode
KeywordMatches(m, e, d) ==
    Cardinality({k \in KeywordSet(m, e) :
                   \E j \in (IF m = "batch" THEN 1..Len(d.columns) ELSE LiveColumns(d)) :
                       IsSubstr(k, Upper(Strip(d.columns[j])))})

MinLiveColumns(e) == IF e = "sales" THEN 3 ELSE 2

FirstOf(reaches(_)) ==
    IF reaches("sales") THEN "sales"
    ELSE IF reaches("customers") THEN "customers"
    ELSE IF reaches("distributors") THEN "distributors"
    ELSE "unknown"

C9_BlankSheetIsEmpty ==
    pc = "classified" /\ mode = "batch" /\ ~HasCell(df) =>
        sheet_type = "empty" /\ extractor = "none"

(***************************** pipeline claims *****************************)

\* C1 as stated: a second run of process_excel_file on the same file adds no
\* customer record for a (name, mobile) pair the store already holds.
C1_RerunAddsNoKnownCustomer ==
    [][run >= 2 =>
          \A i \in (Len(db.customers) + 1)..Len(db'.customers) :
              select_by_name_mobile(db, db'.customers[i].name, db'.customers[i].mobile) = {}]_vars

\* C2 as stated: when two invocations have resolved the same (name, mobile), the
\* store holds at most one customer for the pair and both obtained the same id.
C2_RaceLeavesOneCustomer ==
    \A p, q \in Invocations :
        /\ calls[p].at = "done" /\ calls[q].at = "done"
        /\ calls[p].name = calls[q].name /\ calls[p].mobile = calls[q].mobile
        => /\ Cardinality(select_by_name_mobile(db, calls[p].name, calls[p].mobile)) <= 1
           /\ calls[p].customer_id = calls[q].customer_id

\* C3 as stated: after process_all_files every sale item carries the sale_id
\* of a record of the sales table, never a blank or dangling one.
C3_ItemsReferenceSales ==
    pc = "done" =>
        \A i \in 1..Len(sale_items_df.rows) :
            /\ notna(sale_items_df.rows[i].sale_id)
            /\ \E j \in 1..Len(sales_df.rows) :
                  Key(sales_df.rows[j].sale_id) = Key(sale_items_df.rows[i].sale_id)

\* C4 as stated: after process_all_files every sale carries a non-null
\* customer_id that is the customer_id of exactly one customer record.
C4_SalesReferenceOneCustomer ==
    pc = "done" =>
        \A j \in 1..Len(sales_df.rows) :
            /\ notna(sales_df.rows[j].customer_id)
            /\ Cardinality({i \in 1..Len(customers_df.rows) :
                              Key(customers_df.rows[i].customer_id)
                                  = Key(sales_df.rows[j].customer_id)}) = 1

CatalogIds == {ProdId(i - 1) : i \in 1..Len(product_mapping)}
CatalogNames == {product_mapping[i].name : i \in 1..Len(product_mapping)}
CatalogKeys == {Upper(n) : n \in CatalogNames}

\* C5: in both pipelines every non-blank product id of a sale item is the id of
\* a catalog entry, and the catalog (product tables and name -> id mappings)
\* never gains an entry.
C5_ProductIdsFromClosedCatalog ==
    /\ \A i \in 1..Len(sale_items_df.rows) :
          notna(sale_items_df.rows[i].product_id) =>
              sale_items_df.rows[i].product_id \in CatalogIds
    /\ \A s \in 1..Len(db.sales) : \A k \in 1..Len(db.sales[s].sale_items) :
          db.sales[s].sale_items[k].product_id \in CatalogIds
    /\ \A k \in DOMAIN dp_product_mapping :
          k \in CatalogKeys /\ dp_product_mapping[k] \in CatalogIds
    /\ \A k \in DOMAIN product_name_to_id :
          k.s \in CatalogNames /\ product_name_to_id[k] \in CatalogIds
    /\ Len(db.products) = Len(product_mapping)
    /\ \A i \in 1..Len(db.products) :
          /\ db.products[i].product_id = ProdId(i - 1)
          /\ db.products[i].product_name.s = product_mapping[i].name
    /\ Len(products_df.rows) \in {0, Len(product_mapping)}
    /\ \A i \in 1..Len(products_df.rows) :
          /\ products_df.rows[i].product_id = ProdId(i - 1)
          /\ products_df.rows[i].product_name.s = product_mapping[i].name

\* a finished batch with an item that was linked to a catalog product and an
\* item whose description the name -> id mapping does not hold
C5_Witness ==
    /\ pc = "done"
    /\ \E i \in 1..Len(sale_items_df.rows) : notna(sale_items_df.rows[i].product_id)
    /\ \E i \in 1..Len(sale_items_df.rows) : isna(sale_items_df.rows[i].product_id)

\* rows of a worksheet with a product text that no catalog entry matches
UnmatchedLines(d) ==
    {i \in 1..Len(d.rows) :
        /\ \E j \in 1..Len(d.rows[i]) : notna(d.rows[i][j])
        /\ FirstLabelled(d, d.rows[i], <<"P", "A", "C", "K", "I", "N", "G">>) # 0
        /\ ~get_product_info(Str(d.rows[i][FirstLabelled(d, d.rows[i], <<"P", "A", "C", "K", "I", "N", "G">>)])).found}

\* C6 as stated: a detail line of a sales sheet whose product text matches no
\* catalog entry yields a sale item with a blank product id.
C6_UnmatchedLineKept ==
    mode = "batch" /\ pc \in {"loop", "done"} /\ sheet_type = "sales" =>
        \A i \in UnmatchedLines(df) :
            \E k \in 1..Len(sale_items_df.rows) :
                /\ sale_items_df.rows[k].source_file = StrCell(df.file_name)
                /\ sale_items_df.rows[k].source_sheet = StrCell(df.sheet_name)
                /\ sale_items_df.rows[k].product_name
                       = StrCell(Str(df.rows[i][FirstLabelled(df, df.rows[i], <<"P", "A", "C", "K", "I", "N", "G">>)]))
                /\ isna(sale_items_df.rows[k].product_id)

\* sale records whose invoice number has the synthesized form of their own sheet
Synthesized(f) ==
    {i \in 1..Len(f.rows) :
        \E k \in 1..Len(f.rows) :
            f.rows[i].invoice_no
                = SynthInvoice(f.rows[i].source_file.s, f.rows[i].source_sheet.s, k)}

\* C11 as stated: the invoice numbers synthesized in one batch run for sale
\* rows without an invoice number are pairwise distinct, whatever the file and
\* sheet names.
C11_SynthesizedInvoicesDistinct ==
    pc = "done" =>
        \A i, j \in Synthesized(sales_df) :
            i # j => sales_df.rows[i].invoice_no # sales_df.rows[j].invoice_no

\* C12 as stated: no two records of the sales table of a batch run carry the
\* same invoice number.
C12_InvoiceNumbersUnique ==
    pc = "done" =>
        \A i, j \in 1..Len(sales_df.rows) :
            i # j => Key(sales_df.rows[i].invoice_no) # Key(sales_df.rows[j].invoice_no)

\* every record of the table has a non-blank id that no other record has
IdsAssigned(f, id_column) ==
    \A i \in 1..Len(f.rows) :
        /\ notna(f.rows[i][id_column])
        /\ \A j \in 1..Len(f.rows) :
              i # j => Key(f.rows[i][id_column]) # Key(f.rows[j][id_column])

\* C20 as stated: after process_all_files every record of the customers, sales,
\* sale_items and distributors tables has a non-blank surrogate id, unique
\* within its table.
C20_SurrogateIdsAssigned ==
    pc = "done" =>
        /\ IdsAssigned(customers_df, "customer_id")
        /\ IdsAssigned(sales_df, "sale_id")
        /\ IdsAssigned(sale_items_df, "item_id")
        /\ IdsAssigned(distributors_df, "distributor_id")


\* the worksheet of the sales scenario: the scenario columns and its one row
ScenarioSheet(d) == d.columns = ScenarioColumns /\ d.rows = <<ScenarioRow>>

\* a numeric cell of the given whole value
NumberIs(c, k) == IsNum(c) /\ c.n = k /\ c.d = 1

\* C13 as stated: ingesting the scenario sheet (SR NO, INVOICE, CUSTOMER NAME,
\* PRODUCT, QTY, RATE; row 1, INV001, Ramesh, 5 LTR STEEL BARNI, 2, 680) alone
\* yields exactly one sale, with invoice INV001, and exactly one sale item, with
\* quantity 2, rate 680, amount 1360 and the product id of 5 LTR STEEL BARNI.
C13_ScenarioYieldsSaleAndItem ==
    /\ mode = "batch" /\ pc = "done" /\ sheets_read = 1 /\ ScenarioSheet(df) =>
          /\ Len(sales_df.rows) = 1
          /\ sales_df.rows[1].invoice_no = StrCell(<<"I", "N", "V", "0", "0", "1">>)
          /\ Len(sale_items_df.rows) = 1
          /\ NumberIs(sale_items_df.rows[1].quantity, 2)
          /\ NumberIs(sale_items_df.rows[1].rate, 680)
          /\ NumberIs(sale_items_df.rows[1].amount, 1360)
          /\ sale_items_df.rows[1].product_id = ProdId(3)
    /\ (/\ mode = "interactive" /\ pc = "idle" /\ run = 1
        /\ Len(excel_file) = 1 /\ ScenarioSheet(excel_file[1])) =>
          /\ Len(db.sales) = 1
          /\ db.sales[1].invoice_no = <<"I", "N", "V", "0", "0", "1">>
          /\ Len(db.sales[1].sale_items) = 1
          /\ db.sales[1].sale_items[1].quantity = Fin(FALSE, 2, <<>>)
          /\ db.sales[1].sale_items[1].product_id = ProdId(3)

\* the customer row of the scenario: blank first cell, then name, mobile, village
BlankCodeRow == <<Null, T(<<"S", "u", "r", "e", "s", "h", " ", "P", "a", "t", "e", "l">>), T(<<"9", "8", "7", "6", "5", "4", "3", "2", "1", "0">>), T(<<"A", "m", "i", "y", "a", "d">>)>>

\* the worksheet is a customer sheet that holds the row
HoldsBlankCodeRow(d) ==
    d.columns = CustomerColumns /\ \E i \in 1..Len(d.rows) : d.rows[i] = BlankCodeRow

\* C14 as stated: a customer-sheet row with a blank first cell that carries name
\* Suresh Patel, mobile 9876543210 and village Amiyad yields a customer record
\* with that name, mobile and village, in the batch and in the interactive path.
C14_BlankFirstCellCustomerKept ==
    /\ mode = "batch" /\ pc \in {"loop", "done"} /\ HoldsBlankCodeRow(df) =>
          \E k \in 1..Len(customers_df.rows) :
              /\ customers_df.rows[k].name = T(<<"S", "u", "r", "e", "s", "h", " ", "P", "a", "t", "e", "l">>)
              /\ customers_df.rows[k].mobile = T(<<"9", "8", "7", "6", "5", "4", "3", "2", "1", "0">>)
              /\ customers_df.rows[k].village = T(<<"A", "m", "i", "y", "a", "d">>)
    /\ (/\ mode = "interactive" /\ pc = "idle" /\ run >= 1
        /\ \E s \in 1..Len(excel_file) : HoldsBlankCodeRow(excel_file[s])) =>
          \E k \in 1..Len(db.customers) :
              /\ db.customers[k].name = <<"S", "u", "r", "e", "s", "h", " ", "P", "a", "t", "e", "l">>
              /\ db.customers[k].mobile = <<"9", "8", "7", "6", "5", "4", "3", "2", "1", "0">>
              /\ db.customers[k].village = <<"A", "m", "i", "y", "a", "d">>

\* the distributor row of the scenario: village Amvad, taluka Petlad, no name column
VillageTalukaRow == <<T(<<"P", "a", "t", "e", "l">>), T(<<"A", "m", "v", "a", "d">>), T(<<"P", "e", "t", "l", "a", "d">>), FloatCell(5)>>

\* the worksheet is a distributor sheet that holds the row
HoldsVillageTalukaRow(d) ==
    d.columns = DistributorColumns /\ \E i \in 1..Len(d.rows) : d.rows[i] = VillageTalukaRow

\* C15 as stated: in both entry points a distributor row with village Amvad and
\* taluka Petlad on a sheet without a name column yields a distributor record
\* named "Amvad - Petlad".
C15_VillageTalukaName ==
    /\ mode = "batch" /\ pc \in {"loop", "done"} /\ HoldsVillageTalukaRow(df) =>
          \E k \in 1..Len(distributors_df.rows) :
              distributors_df.rows[k].name = T(<<"A", "m", "v", "a", "d", " ", "-", " ", "P", "e", "t", "l", "a", "d">>)
    /\ (/\ mode = "interactive" /\ pc = "idle" /\ run >= 1
        /\ \E s \in 1..Len(excel_file) : HoldsVillageTalukaRow(excel_file[s])) =>
          \E k \in 1..Len(db.distributors) : db.distributors[k].name = <<"A", "m", "v", "a", "d", " ", "-", " ", "P", "e", "t", "l", "a", "d">>

\* C16 as stated: process_excel_file returns True if and only if the call wrote
\* to the store; it never returns False after it has persisted something.
C16_TrueIffWritten ==
    mode = "interactive" /\ pc = "idle" /\ run >= 1 =>
        (returned = "True" <=> db # entry_db)

\* rows of a sales worksheet that open a sale and whose handling raises nothing
SoundSaleRows(d) ==
    {i \in 1..Len(d.rows) :
        LET st == SalesRow(d, d.rows[i], SalesLoopInit)
        IN  st.raised = "none" /\ st.sales_data # <<>>}

\* C17 as stated: an exception raised by one row of a sheet does not undo the
\* other rows: every sale row of a processed sales sheet that raises nothing
\* itself has its sale record in the sales table.
C17_OtherRowsKept ==
    mode = "batch" /\ pc \in {"loop", "done"} /\ sheet_type = "sales" =>
        \A i \in SoundSaleRows(df) :
            \E k \in 1..Len(sales_df.rows) :
                /\ sales_df.rows[k].source_file = StrCell(df.file_name)
                /\ sales_df.rows[k].source_sheet = StrCell(df.sheet_name)
                /\ sales_df.rows[k].customer_name
                       = SalesRow(df, df.rows[i], SalesLoopInit).sales_data[1].customer_name

\* C18 as stated: when a store call fails during process_excel_file because
\* the store is unreachable, the call ends with the error raised to its caller,
\* not with an ordinary return value.
C18_StoreErrorPropagates ==
    mode = "interactive" /\ pc = "idle" /\ run >= 1 /\ store_failed => returned = "raised"

\* the customers table t2 holds every record of t1, with the same id and name
KeepsCustomers(t1, t2) ==
    \A i \in 1..Len(t1) :
        \E j \in 1..Len(t2) :
            t2[j].customer_id = t1[i].customer_id /\ t2[j].name = t1[i].name

\* C19 as stated: no step of process_excel_file or process_all_files removes a
\* customer from a persisted store: each customer record is still there, with
\* the same customer id, after the step.
C19_NoCustomerDeleted ==
    [][/\ KeepsCustomers(db.customers, db'.customers)
       /\ KeepsCustomers(output_db.customers, output_db'.customers)]_vars

\* C21 as stated: a call of _get_or_create_customer that missed and inserted
\* returns the id of a record of its own (name, mobile), also when another
\* miss took its time-based code at the same clock reading.
C21_MissReturnsInsertedId ==
    \A p \in Invocations :
        calls[p].at = "done" /\ calls[p].customer_code # <<>> =>
            \E i \in 1..Len(db.customers) :
                /\ db.customers[i].customer_id = calls[p].customer_id
                /\ db.customers[i].name = calls[p].name
                /\ db.customers[i].mobile = calls[p].mobile

\* the customers a pass appended to the table t1, as they stand in t2
Appended(t1, t2) == (Len(t1.rows) + 1)..Len(t2.rows)

AliasColumns ==
    {j \in 1..Len(probe.row.index) : IsSubstr(probe.column_name, probe.row.index[j])}

\* C27 as stated: _safe_get reads the cell of a column whose label equals or
\* contains the field name; the positional cell is read only when no label
\* matches; a null cell gives the empty string.
C27_LabelBeforePosition ==
    pc = "returned" =>
        LET cell == IF AliasColumns # {} THEN probe.row.cells[SetMin(AliasColumns)]
                    ELSE ProbeCell
        IN  result.get.value = IF isna(cell) THEN <<>> ELSE Strip(Str(cell))

\* C25 as stated: after the link step every item whose packing text contains
\* a catalog name (in any letter case) carries that catalog entry's
\* product id.
C25_CatalogItemsLinked ==
    pc = "done" =>
        \A i \in 1..Len(sale_items_df.rows) :
            LET info == get_product_info(Str(sale_items_df.rows[i].product_name))
            IN  info.found =>
                    sale_items_df.rows[i].product_id = info.product_id

\* the names of the sales rows that the customers table does not hold
UnmatchedNames ==
    {Key(sales_df.rows[i].customer_name) : i \in 1..Len(sales_df.rows)}
        \ {Key(customers_df.rows[k].name) : k \in 1..Len(customers_df.rows)}

\* C30: one pass of establish_relationships appends one customer per
\* distinct unmatched name, and the sales rows of one unmatched name all
\* receive the same customer id.
C30_OneCustomerPerUnmatchedName ==
    [][pc = "link" =>
          /\ Len(customers_df'.rows) = Len(customers_df.rows) + Cardinality(UnmatchedNames)
          /\ \A i, j \in 1..Len(sales_df'.rows) :
                (/\ Key(sales_df'.rows[i].customer_name) \in UnmatchedNames
                 /\ sales_df'.rows[i].customer_name = sales_df'.rows[j].customer_name)
                    => sales_df'.rows[i].customer_id = sales_df'.rows[j].customer_id]_vars

\* C30 witness: two sales rows of the placeholder name were linked to one
\* synthesized customer.
C30_Witness ==
    /\ pc = "linked"
    /\ Len(sales_df.rows) = 2
    /\ sales_df.rows[1].customer_name = StrCell(<<"U", "n", "k", "n", "o", "w", "n", " ", "C", "u", "s", "t", "o", "m", "e", "r">>)
    /\ sales_df.rows[2].customer_name = StrCell(<<"U", "n", "k", "n", "o", "w", "n", " ", "C", "u", "s", "t", "o", "m", "e", "r">>)
    /\ sales_df.rows[1].customer_id = sales_df.rows[2].customer_id
    /\ Cardinality({k \in 1..Len(customers_df.rows) :
           /\ customers_df.rows[k].name = StrCell(<<"U", "n", "k", "n", "o", "w", "n", " ", "C", "u", "s", "t", "o", "m", "e", "r">>)
           /\ customers_df.rows[k].customer_id = sales_df.rows[1].customer_id
           /\ ~isna(customers_df.rows[k].customer_code)}) = 1

\* a cell that holds a serial number: a whole number, typed as a number or as digits
IsSerial(c) ==
    \/ c.t \in {"int", "float"} /\ c.n >= 0 /\ c.n % c.d = 0
    \/ c.t = "str" /\ IsDigit(Strip(c.s))

SerialRows(d) == {i \in 1..Len(d.rows) : IsSerial(d.rows[i][1])}

\* the rows that carry a detail line the catalog matches
ItemRows(d) ==
    {i \in 1..Len(d.rows) :
        LET p == FirstLabelled(d, d.rows[i], <<"P", "A", "C", "K", "I", "N", "G">>)
        IN  p # 0 /\ get_product_info(Str(d.rows[i][p])).found}

\* the number of serial-numbered rows at or before row i
OpenedBy(d, i) == Cardinality({j \in SerialRows(d) : j <= i})

\* C23 as stated: a sales sheet yields one sale record per row whose first
\* cell is a serial number, and every item carries the invoice number of the
\* sale most recently opened at or before its row.
C23_OneSalePerSerialRow ==
    (mode = "batch" /\ pc = "loop" /\ sheet_type = "sales") =>
        /\ Len(sales_df.rows) = Cardinality(SerialRows(df))
        /\ \A k \in 1..Len(sale_items_df.rows) :
              LET rows == SortedIdx(ItemRows(df))
              IN  (k <= Len(rows) /\ OpenedBy(df, rows[k]) > 0) =>
                      sale_items_df.rows[k].invoice_no
                          = sales_df.rows[OpenedBy(df, rows[k])].invoice_no

\* the cell of the latest serial-numbered row up to row i that fills a column
\* labelled kw, or null when none does
CarriedCell(d, i, kw) ==
    LET J == {j \in SerialRows(d) : j <= i /\ FirstLabelled(d, d.rows[j], kw) # 0}
    IN  IF J = {} THEN Null
        ELSE d.rows[SetMax(J)][FirstLabelled(d, d.rows[SetMax(J)], kw)]

\* C24 as stated: a sale record whose row leaves the customer name, village,
\* taluka or district blank takes the value of the most recent earlier
\* sale-starting row that set it.
C24_BlankFieldsCarriedOver ==
    (/\ mode = "batch" /\ pc = "loop" /\ sheet_type = "sales"
     /\ Len(sales_df.rows) = Cardinality(SerialRows(df))) =>
        \A n \in 1..Len(sales_df.rows) :
            LET i == SortedIdx(SerialRows(df))[n]
                carried(f, kw) == notna(CarriedCell(df, i, kw)) =>
                                      sales_df.rows[n][f] = CarriedCell(df, i, kw)
            IN  /\ carried("customer_name", <<"N", "A", "M", "E">>)
                /\ carried("village", <<"V", "I", "L", "L", "A", "G", "E">>)
                /\ carried("taluka", <<"T", "A", "L", "U", "K", "A">>)
                /\ carried("district", <<"D", "I", "S", "T", "R", "I", "C", "T">>)

\* a first cell that marks a header row or an empty row
HeaderLike(c) ==
    \/ isna(c)
    \/ Strip(Str(c)) = <<>>
    \/ \E indicator \in header_indicators : IsSubstr(indicator, Upper(Str(c)))

\* C26 as stated: a row whose first cell is null, blank or contains a header
\* indicator produces no record in the batch tables and no write to the store.
C26_HeaderRowsProduceNothing ==
    [][/\ (/\ mode = "batch" /\ pc = "sheet"
           /\ \A i \in 1..Len(df.rows) : HeaderLike(df.rows[i][1]))
          => UNCHANGED <<customers_df, sales_df, sale_items_df, distributors_df>>
       /\ (/\ mode = "interactive" /\ pc = "rows"
           /\ HeaderLike(df.rows[row_no + 1][1]))
          => db' = db]_vars

\* the quantity, rate and amount cells of the one-row numeric worksheet
NumericCell(j) == df.rows[1][j]
ValueOr(c, default) == IF isna(c) THEN default ELSE c.n \div c.d

\* C28: for a matched detail line over whole numbers 0..MaxAmount, a quantity
\* that is absent or 0 beside a positive amount and rate is stored as
\* amount / rate, an amount that is absent or 0 is stored as quantity x rate,
\* and a quantity and an amount that are both present are stored as read.
C28_DerivedQuantityAndAmount ==
    (mode = "batch" /\ pc = "loop" /\ df.columns = NumericColumns) =>
        LET q == ValueOr(NumericCell(4), 0)
            r == ValueOr(NumericCell(5), get_product_info(Str(NumericCell(3))).rate.n)
            a == ValueOr(NumericCell(6), 0)
            item == sale_items_df.rows[1]
        IN  /\ Len(sale_items_df.rows) = 1
            /\ IsNum(item.quantity) /\ IsNum(item.rate) /\ IsNum(item.amount)
            /\ item.rate.n = r * item.rate.d
            /\ (q = 0 /\ a > 0 /\ r > 0) => item.quantity.n * r = a * item.quantity.d
            /\ a = 0 => item.amount.n * item.quantity.d * item.rate.d
                            = item.quantity.n * item.rate.n * item.amount.d
            /\ (q > 0 /\ a > 0) => /\ item.quantity.n = q * item.quantity.d
                                   /\ item.amount.n = a * item.amount.d

\* C28 witness: a line without a quantity, with amount 2 and rate 1, was
\* stored with quantity 2.
C28_Witness ==
    /\ mode = "batch" /\ pc = "loop" /\ df.columns = NumericColumns
    /\ isna(NumericCell(4))
    /\ NumericCell(5) = IntCell(1)
    /\ NumericCell(6) = IntCell(2)
    /\ Len(sale_items_df.rows) = 1
    /\ sale_items_df.rows[1].quantity.n = 2 * sale_items_df.rows[1].quantity.d
    /\ sale_items_df.rows[1].amount = IntCell(2)

====
